---- MODULE Spec2Model ----
(***************************************************************************)
(* Model of mcaster: the address resolver (internal/network), the sender   *)
(* and receiver constructors and the sender loop (internal/multicast).     *)
(* Strings are sequences of one-character strings so that host:port        *)
(* parsing, joining and integer formatting are computed, not assumed.      *)
(***************************************************************************)
EXTENDS Integers, Sequences, FiniteSets, TLC

VARIABLES
    args,       \* the arguments of the call under study
    env,        \* the operating-system calls that have failed so far
    pc,         \* position of the process
    ret,        \* result of OverrideGroupPort (resolver specification)
    addr,       \* the local variable addr: the resolved *net.UDPAddr
    sockets,    \* every socket opened so far: sequence of "open"/"closed"
    conn,       \* the local variable conn / the session's conn (0 = nil)
    session,    \* the *Sender or *Receiver returned (Nil before / on error)
    err,        \* the error returned by the constructor, as its chain of
                \* wrapped messages, outermost first (<<>> = nil)
    wire,       \* the datagrams written to the socket, in order
    printed,    \* ids of the "Sent packet" records printed, in order
    log         \* outcome of each send-loop iteration, in order

vars == <<args, env, pc, ret, addr, sockets, conn, session, err, wire, printed, log>>

Nil == [nil |-> TRUE]

----------------------------------------------------------------------------
(* Bounds of the model *)

MaxAddrLen == 4      \* longest enumerated group address
MaxTicks == 4        \* send-loop iterations explored
MaxReads == 2        \* receive-loop iterations explored
MaxSourceLen == 2    \* longest enumerated source of a message
MaxInputLen == 4     \* longest enumerated input of UnmarshalMessage

----------------------------------------------------------------------------
(* Strings *)

Alphabet == {"f", "1", ":", "[", "]"}

AllStrings(n) == UNION {[1..k -> Alphabet] : k \in 0..n}

Digits == <<"0", "1", "2", "3", "4", "5", "6", "7", "8", "9">>

RECURSIVE Itoa(_)
Itoa(n) ==
    IF n < 0 THEN <<"-">> \o Itoa(0 - n)
    ELSE IF n < 10 THEN <<Digits[n + 1]>>
    ELSE Itoa(n \div 10) \o <<Digits[(n % 10) + 1]>>

IndexByte(s, c) ==
    IF \E i \in 1..Len(s) : s[i] = c
    THEN CHOOSE i \in 1..Len(s) : s[i] = c /\ \A j \in 1..(i - 1) : s[j] # c
    ELSE 0

LastIndexByte(s, c) ==
    IF \E i \in 1..Len(s) : s[i] = c
    THEN CHOOSE i \in 1..Len(s) : s[i] = c /\ \A j \in (i + 1)..Len(s) : s[j] # c
    ELSE 0

Contains(s, sub) ==
    \E i \in 0..(Len(s) - Len(sub)) : SubSeq(s, i + 1, i + Len(sub)) = sub

Tail0(s, i) == SubSeq(s, i, Len(s))

----------------------------------------------------------------------------
(* net.SplitHostPort and net.JoinHostPort as called by OverrideGroupPort *)

sAddress == <<"a", "d", "d", "r", "e", "s", "s">>
sMissing == <<"m", "i", "s", "s", "i", "n", "g">>
sInAddress == <<" ", "i", "n", " ">> \o sAddress
missingPort == sMissing \o <<" ", "p", "o", "r", "t">>
tooManyColons == <<"t", "o", "o", " ", "m", "a", "n", "y", " ", "c", "o", "l", "o", "n", "s">>
sUnexpected == <<"u", "n", "e", "x", "p", "e", "c", "t", "e", "d", " ">>

missingPortInAddress == missingPort \o sInAddress
tooManyColonsInAddress == tooManyColons \o sInAddress
missingBracket == sMissing \o <<" ", "'", "]", "'">> \o sInAddress
unexpectedOpen == sUnexpected \o <<"'", "[", "'">> \o sInAddress
unexpectedClose == sUnexpected \o <<"'", "]", "'">> \o sInAddress

AddrError(hostport, why) == [host |-> <<>>, port |-> <<>>, err |-> [Err |-> why, Addr |-> hostport]]

\* (*AddrError).Error()
ErrorText(e) ==
    IF e.Addr # <<>> THEN sAddress \o <<" ">> \o e.Addr \o <<":", " ">> \o e.Err
    ELSE e.Err

SplitHostPort(hostport) ==
    LET i == LastIndexByte(hostport, ":")
        end == IndexByte(hostport, "]")
        bracketed == hostport[1] = "["
        j == IF bracketed THEN 2 ELSE 1
        k == IF bracketed THEN end + 1 ELSE 1
        host == IF bracketed THEN SubSeq(hostport, 2, end - 1)
                ELSE SubSeq(hostport, 1, i - 1)
    IN  IF i = 0 THEN AddrError(hostport, missingPortInAddress)
        ELSE IF bracketed /\ end = 0 THEN AddrError(hostport, missingBracket)
        ELSE IF bracketed /\ end = Len(hostport)
            THEN AddrError(hostport, missingPortInAddress)
        ELSE IF bracketed /\ end + 1 # i /\ hostport[end + 1] = ":"
            THEN AddrError(hostport, tooManyColonsInAddress)
        ELSE IF bracketed /\ end + 1 # i
            THEN AddrError(hostport, missingPortInAddress)
        ELSE IF ~bracketed /\ IndexByte(host, ":") > 0
            THEN AddrError(hostport, tooManyColonsInAddress)
        ELSE IF IndexByte(Tail0(hostport, j), "[") > 0
            THEN AddrError(hostport, unexpectedOpen)
        ELSE IF IndexByte(Tail0(hostport, k), "]") > 0
            THEN AddrError(hostport, unexpectedClose)
        ELSE [host |-> host, port |-> Tail0(hostport, i + 1), err |-> Nil]

JoinHostPort(host, port) ==
    IF IndexByte(host, ":") > 0 THEN <<"[">> \o host \o <<"]", ":">> \o port
    ELSE host \o <<":">> \o port

----------------------------------------------------------------------------
(* network.OverrideGroupPort *)

NoError == ""
ErrDestinationPort == "destination port must be between 1 and 65535"
ErrParseGroupAddress == "failed to parse group address"

\* the part of OverrideGroupPort after the range checks, with the three
\* results it can give, so that variants can differ in one of them
OverrideParsed(groupAddr, onParsed, onNoPort, onManyColons) ==
    LET r == SplitHostPort(groupAddr)
    IN  IF r.err # Nil
        THEN IF Contains(ErrorText(r.err), missingPort) THEN onNoPort
             ELSE IF Contains(ErrorText(r.err), tooManyColons) THEN onManyColons
             ELSE [addr |-> <<>>, err |-> ErrParseGroupAddress]
        ELSE onParsed

Joined(host, dport) == [addr |-> JoinHostPort(host, Itoa(dport)), err |-> NoError]

\* variant: the port found in the address is kept
OverrideGroupPort_KeepsPort(groupAddr, dport) ==
    IF dport <= 0 THEN [addr |-> groupAddr, err |-> NoError]
    ELSE IF dport > 65535 THEN [addr |-> <<>>, err |-> ErrDestinationPort]
    ELSE OverrideParsed(groupAddr,
            [addr |-> JoinHostPort(SplitHostPort(groupAddr).host,
                                   SplitHostPort(groupAddr).port), err |-> NoError],
            Joined(groupAddr, dport), Joined(groupAddr, dport))

\* variant: only zero means "no override", a negative dport is rejected
OverrideGroupPort_ZeroOnly(groupAddr, dport) ==
    IF dport = 0 THEN [addr |-> groupAddr, err |-> NoError]
    ELSE IF dport < 0 \/ dport > 65535 THEN [addr |-> <<>>, err |-> ErrDestinationPort]
    ELSE OverrideParsed(groupAddr, Joined(SplitHostPort(groupAddr).host, dport),
                        Joined(groupAddr, dport), Joined(groupAddr, dport))

\* variant: the upper bound of dport is not checked
OverrideGroupPort_NoUpperBound(groupAddr, dport) ==
    IF dport <= 0 THEN [addr |-> groupAddr, err |-> NoError]
    ELSE OverrideParsed(groupAddr, Joined(SplitHostPort(groupAddr).host, dport),
                        Joined(groupAddr, dport), Joined(groupAddr, dport))

\* variant: a port-less address is returned as it is
OverrideGroupPort_NoAppend(groupAddr, dport) ==
    IF dport <= 0 THEN [addr |-> groupAddr, err |-> NoError]
    ELSE IF dport > 65535 THEN [addr |-> <<>>, err |-> ErrDestinationPort]
    ELSE OverrideParsed(groupAddr, Joined(SplitHostPort(groupAddr).host, dport),
                        [addr |-> groupAddr, err |-> NoError], Joined(groupAddr, dport))

OverrideGroupPort(groupAddr, dport) ==
    IF dport <= 0 THEN [addr |-> groupAddr, err |-> NoError]
    ELSE IF dport > 65535 THEN [addr |-> <<>>, err |-> ErrDestinationPort]
    ELSE LET r == SplitHostPort(groupAddr)
         IN  IF r.err # Nil
             THEN IF Contains(ErrorText(r.err), missingPort)
                  THEN [addr |-> JoinHostPort(groupAddr, Itoa(dport)), err |-> NoError]
                  ELSE IF Contains(ErrorText(r.err), tooManyColons)
                  THEN [addr |-> JoinHostPort(groupAddr, Itoa(dport)), err |-> NoError]
                  ELSE [addr |-> <<>>, err |-> ErrParseGroupAddress]
             ELSE [addr |-> JoinHostPort(r.host, Itoa(dport)), err |-> NoError]

----------------------------------------------------------------------------
(* net.ResolveUDPAddr("udp", addr): host:port split, port parsing as       *)
(* net.parsePort/LookupPort do it, literal IPv4 and IPv6 hosts, and a name  *)
(* lookup (whose outcome belongs to the environment) for anything else.     *)

DigitValue(c) == CHOOSE d \in 0..9 : Digits[d + 1] = c

IsDigit(c) == \E d \in 1..10 : Digits[d] = c

HexChars == {Digits[d] : d \in 1..10} \cup {"a", "b", "c", "d", "e", "f", "A", "B", "C", "D", "E", "F"}

RECURSIVE Atoi(_)
Atoi(s) ==
    IF s = <<>> THEN 0
    ELSE LET n == Atoi(SubSeq(s, 1, Len(s) - 1))
         IN  IF n > 99999 THEN n ELSE n * 10 + DigitValue(s[Len(s)])

\* the fields of s between occurrences of c (strings.Split)
RECURSIVE Split(_, _)
Split(s, c) ==
    LET i == IndexByte(s, c)
    IN  IF i = 0 THEN <<s>> ELSE <<SubSeq(s, 1, i - 1)>> \o Split(Tail0(s, i + 1), c)

\* net.parsePort: [port, needsLookup]
parsePort(service) ==
    IF service = <<>> THEN [port |-> 0, needsLookup |-> FALSE]
    ELSE LET neg == service[1] = "-"
             digits == IF service[1] \in {"+", "-"} THEN Tail(service) ELSE service
         IN  IF \E i \in 1..Len(digits) : ~IsDigit(digits[i])
             THEN [port |-> 0, needsLookup |-> TRUE]
             ELSE [port |-> IF neg THEN 0 - Atoi(digits) ELSE Atoi(digits),
                   needsLookup |-> FALSE]

\* variant: a field may exceed 255
IPv4Field_AnyOctet(f) ==
    /\ Len(f) \in 1..3
    /\ \A i \in 1..Len(f) : IsDigit(f[i])
    /\ (Len(f) > 1 => f[1] # "0")

\* a dotted quad: four decimal fields of 1..3 digits, no leading zero, <= 255
IPv4Field(f) ==
    /\ Len(f) \in 1..3
    /\ \A i \in 1..Len(f) : IsDigit(f[i])
    /\ (Len(f) > 1 => f[1] # "0")
    /\ Atoi(f) <= 255

ParseIPv4(host) ==
    LET fs == Split(host, ".")
    IN  IF Len(fs) = 4 /\ \A i \in 1..4 : IPv4Field(fs[i])
        THEN [fam |-> 4, first |-> Atoi(fs[1]), text |-> host]
        ELSE Nil

\* an IPv6 literal: hex groups of 1..4 digits, at most one "::"
IPv6Field(f) == Len(f) \in 1..4 /\ \A i \in 1..Len(f) : f[i] \in HexChars

HexValue(c) ==
    IF IsDigit(c) THEN DigitValue(c)
    ELSE IF c \in {"a", "A"} THEN 10 ELSE IF c \in {"b", "B"} THEN 11
    ELSE IF c \in {"c", "C"} THEN 12 ELSE IF c \in {"d", "D"} THEN 13
    ELSE IF c \in {"e", "E"} THEN 14 ELSE 15

ParseIPv6(host) ==
    LET fs == Split(host, ":")
        dbl == Cardinality({i \in 1..(Len(host) - 1) : host[i] = ":" /\ host[i + 1] = ":"})
        full == {i \in 1..Len(fs) : fs[i] # <<>>}
        edgesOK == /\ Len(host) >= 2
                   /\ (host[1] = ":" => host[2] = ":")
                   /\ (host[Len(host)] = ":" => host[Len(host) - 1] = ":")
        wellFormed == /\ edgesOK
                      /\ \A i \in full : IPv6Field(fs[i])
                      /\ \/ dbl = 0 /\ Len(fs) = 8 /\ Cardinality(full) = 8
                         \/ dbl = 1 /\ Cardinality(full) <= 7
        high == IF fs[1] # <<>> /\ Len(fs[1]) = 4
                THEN HexValue(fs[1][1]) * 16 + HexValue(fs[1][2]) ELSE 0
    IN  IF wellFormed THEN [fam |-> 6, first |-> high, text |-> host] ELSE Nil

ParseIP(host) ==
    IF ParseIPv4(host) # Nil THEN ParseIPv4(host) ELSE ParseIPv6(host)

\* variant: every address can be joined
IsMulticast_Any(ip) == ip # Nil

\* (net.IP).IsMulticast
IsMulticast(ip) ==
    /\ ip # Nil
    /\ \/ ip.fam = 4 /\ ip.first \in 224..239
       \/ ip.fam = 6 /\ ip.first = 255

\* what a successful name lookup answers: a host address, a service port
LookedUp == [host |-> [fam |-> 4, first |-> 10, text |-> <<"1", "0", ".", "0", ".", "0", ".", "9">>],
             port |-> 53]

\* lookupOK: whether name lookups (DNS host names, service names) succeed
ResolveUDPAddr(address, lookupOK) ==
    LET r == SplitHostPort(address)
        p == parsePort(r.port)
        port == IF p.needsLookup THEN LookedUp.port ELSE p.port
        ip == IF r.host = <<>> THEN Nil
              ELSE IF ParseIP(r.host) # Nil THEN ParseIP(r.host)
              ELSE LookedUp.host
    IN  IF r.err # Nil THEN [addr |-> Nil, err |-> "split"]
        ELSE IF p.needsLookup /\ ~lookupOK THEN [addr |-> Nil, err |-> "unknown port"]
        ELSE IF port < 0 \/ port > 65535 THEN [addr |-> Nil, err |-> "invalid port"]
        ELSE IF r.host # <<>> /\ ParseIP(r.host) = Nil /\ ~lookupOK
            THEN [addr |-> Nil, err |-> "no such host"]
        ELSE [addr |-> [IP |-> ip, Port |-> port], err |-> NoError]

NeedsLookup(address) ==
    LET r == SplitHostPort(address)
    IN  r.err = Nil /\ (parsePort(r.port).needsLookup
                        \/ (r.host # <<>> /\ ParseIP(r.host) = Nil))

----------------------------------------------------------------------------
(* Inputs *)

Addr239 == <<"2", "3", "9", ".", "2", "3", ".", "2", "3", ".", "2", "3">>
Addr239_2323 == <<"2", "3", "9", ".", "2", "3", ".", "2", "3", ".", "2", "3", ":", "2", "3", "2", "3">>
Addr239_99999 == <<"2", "3", "9", ".", "2", "3", ".", "2", "3", ".", "2", "3", ":", "9", "9", "9", "9", "9">>
Addr300_2323 == <<"3", "0", "0", ".", "3", "0", "0", ".", "3", "0", "0", ".", "3", "0", "0", ":", "2", "3", "2", "3">>
Addr10_2323 == <<"1", "0", ".", "0", ".", "0", ".", "1", ":", "2", "3", "2", "3">>
AddrFF02 == <<"f", "f", "0", "2", ":", ":", "1">>
AddrFF02_2323 == <<"[", "f", "f", "0", "2", ":", ":", "1", "]", ":", "2", "3", "2", "3">>
AddrFF02_Bracketed == <<"[", "f", "f", "0", "2", ":", ":", "1", "]">>
AddrFF02_Unclosed == <<"[", "f", "f", "0", "2", ":", ":", "1">>

\* the addresses the tests and the documentation use, and malformed ones
NamedAddrs ==
    {Addr239, Addr239_2323, Addr239_99999, Addr300_2323, Addr10_2323,
     AddrFF02, AddrFF02_2323, AddrFF02_Bracketed, AddrFF02_Unclosed}

GroupAddrs == AllStrings(MaxAddrLen) \cup NamedAddrs

DPorts == {-1, 0, 1, 8080, 65535, 65536}
TTLs == {0, 1, 255, 256}
SPorts == {-1, 0, 65535, 65536}
Intervals == {-1, 0, 1}
InterfaceNames == {"", "eth0", "lo", "tun6", "down0", "nope"}

\* the interfaces of the host and their addresses in enumeration order
HostInterfaces ==
    [eth0 |-> << [ip |-> "fe80::1", v4 |-> FALSE, loopback |-> FALSE],
                 [ip |-> "127.0.0.5", v4 |-> TRUE, loopback |-> TRUE],
                 [ip |-> "10.0.0.5", v4 |-> TRUE, loopback |-> FALSE],
                 [ip |-> "10.0.0.6", v4 |-> TRUE, loopback |-> FALSE] >>,
     lo   |-> << [ip |-> "127.0.0.1", v4 |-> TRUE, loopback |-> TRUE],
                 [ip |-> "::1", v4 |-> FALSE, loopback |-> TRUE] >>,
     tun6 |-> << [ip |-> "fe80::2", v4 |-> FALSE, loopback |-> FALSE],
                 [ip |-> "2001:db8::2", v4 |-> FALSE, loopback |-> FALSE] >>,
     down0 |-> << >>]

----------------------------------------------------------------------------
(* The resolver on its own: one call of OverrideGroupPort *)

Idle ==
    /\ env = {}
    /\ ret = Nil
    /\ addr = Nil
    /\ sockets = <<>>
    /\ conn = 0
    /\ session = Nil
    /\ err = <<>>
    /\ wire = <<>>
    /\ printed = <<>>
    /\ log = <<>>

InitResolve ==
    /\ args \in [role : {"resolve"}, groupAddr : GroupAddrs, interfaceName : {""},
                 interval : {1}, ttl : {1}, sport : {0}, dport : DPorts]
    /\ pc = "OverrideGroupPort"
    /\ Idle

Resolve ==
    /\ pc = "OverrideGroupPort"
    /\ ret' = OverrideGroupPort(args.groupAddr, args.dport)
    /\ pc' = "resolved"
    /\ UNCHANGED <<args, env, addr, sockets, conn, session, err, wire, printed, log>>

NextResolve == Resolve

SpecResolve == InitResolve /\ [][NextResolve]_vars

Resolved == pc = "resolved"
InRange == args.dport \in 1..65535

\* the text after the last colon
PortText(s) == Tail0(s, LastIndexByte(s, ":") + 1)
HasPort(s) == LastIndexByte(s, ":") > 0 /\ PortText(s) # <<>>
            /\ \A i \in 1..Len(PortText(s)) : IsDigit(PortText(s)[i])
NoBrackets(s) == IndexByte(s, "[") = 0 /\ IndexByte(s, "]") = 0

C2_NoOverrideIsIdentity ==
    (Resolved /\ args.dport <= 0) => (ret.err = NoError /\ ret.addr = args.groupAddr)

C2_Witness ==
    /\ Resolved /\ args.dport < 0 /\ args.groupAddr = Addr239_2323
    /\ ret.addr = Addr239_2323

EndsWith(s, t) == Len(s) >= Len(t) /\ SubSeq(s, Len(s) - Len(t) + 1, Len(s)) = t

\* C4 (as stated): every successful result carries an explicit port, also
\* for a port-less address with dport <= 0.
C4_NeverPortless ==
    (Resolved /\ ret.err = NoError) => HasPort(ret.addr)

\* C4 (amended): a successful result with dport in 1..65535 ends in ":" and
\* the digits of dport; with dport <= 0 the result is the input, port-less
\* when the input is port-less.
C4_PortlessOnlyWithoutOverride ==
    (Resolved /\ ret.err = NoError) =>
        /\ InRange => EndsWith(ret.addr, <<":">> \o Itoa(args.dport))
        /\ ~EndsWith(ret.addr, <<":">> \o Itoa(args.dport)) =>
              (args.dport <= 0 /\ ret.addr = args.groupAddr)

C4_Witness ==
    /\ Resolved /\ args.groupAddr = Addr239 /\ args.dport = 8080
    /\ ret.addr = Addr239 \o <<":", "8", "0", "8", "0">>

Bracketed(literal, port) == <<"[">> \o literal \o <<"]", ":">> \o port

\* the IPv6 literal a group address carries, Nil when it carries none:
\* "[literal]:port", a bare "literal", or "[literal]" without a port
IPv6LiteralOf(s) ==
    LET in == SplitHostPort(s)
        inner == SubSeq(s, 2, Len(s) - 1)
    IN  IF in.err = Nil /\ s[1] = "[" /\ ParseIPv6(in.host) # Nil THEN in.host
        ELSE IF ParseIPv6(s) # Nil THEN s
        ELSE IF Len(s) >= 2 /\ s[1] = "[" /\ s[Len(s)] = "]" /\ ParseIPv6(inner) # Nil
        THEN inner
        ELSE Nil

\* C5: with dport in 1..65535 a bracketed IPv6 literal with a port has only
\* its port replaced and a bare IPv6 literal is bracketed with dport
\* appended; the output never holds a doubly bracketed or an unbracketed
\* IPv6 host.
C5_IPv6NeverDoublyBracketed ==
    (Resolved /\ InRange /\ IPv6LiteralOf(args.groupAddr) # Nil) =>
        /\ ret.err = NoError
        /\ ret.addr = Bracketed(IPv6LiteralOf(args.groupAddr), Itoa(args.dport))
        /\ ~Contains(ret.addr, <<"[", "[">>)

----------------------------------------------------------------------------
(* time.Time as encoding/json writes and reads it (RFC 3339 with           *)
(* nanoseconds).  A time is its civil fields, its zone offset in minutes    *)
(* and whether it carries a monotonic clock reading, as time.Now() does.    *)

Time(year, month, day, hour, min, sec, nsec, off, mono) ==
    [year |-> year, month |-> month, day |-> day, hour |-> hour, min |-> min,
     sec |-> sec, nsec |-> nsec, off |-> off, mono |-> mono]

\* the zero time.Time: January 1, year 1, 00:00:00 UTC
ZeroTime == Time(1, 1, 1, 0, 0, 0, 0, 0, FALSE)

\* the decimal digits of n >= 0, zero padded to width w
RECURSIVE Pad(_, _)
Pad(n, w) == IF w = 0 THEN <<>> ELSE Pad(n \div 10, w - 1) \o <<Digits[(n % 10) + 1]>>

RECURSIVE TrimZeros(_)
TrimZeros(s) ==
    IF s # <<>> /\ s[Len(s)] = "0" THEN TrimZeros(SubSeq(s, 1, Len(s) - 1)) ELSE s

\* variant: the time is written to the second
FormatFraction_Seconds(nsec) == <<>>

\* the ".999999999" part of the layout: nothing for a whole second
FormatFraction(nsec) == IF nsec = 0 THEN <<>> ELSE <<".">> \o TrimZeros(Pad(nsec, 9))

\* the "Z07:00" part of the layout
FormatZone(off) ==
    IF off = 0 THEN <<"Z">>
    ELSE LET a == IF off < 0 THEN 0 - off ELSE off
         IN  <<IF off < 0 THEN "-" ELSE "+">> \o Pad(a \div 60, 2) \o <<":">> \o Pad(a % 60, 2)

\* Time.Format(time.RFC3339Nano)
FormatRFC3339Nano(t) ==
    Pad(t.year, 4) \o <<"-">> \o Pad(t.month, 2) \o <<"-">> \o Pad(t.day, 2) \o <<"T">>
        \o Pad(t.hour, 2) \o <<":">> \o Pad(t.min, 2) \o <<":">> \o Pad(t.sec, 2)
        \o FormatFraction(t.nsec) \o FormatZone(t.off)

AllDigits(s) == \A i \in 1..Len(s) : IsDigit(s[i])

\* the value of a string of at most nine decimal digits
RECURSIVE Number(_)
Number(s) == IF s = <<>> THEN 0 ELSE Number(SubSeq(s, 1, Len(s) - 1)) * 10 + DigitValue(s[Len(s)])

IsLeap(year) == year % 4 = 0 /\ (year % 100 # 0 \/ year % 400 = 0)

DaysIn(month, year) ==
    IF month = 2 THEN (IF IsLeap(year) THEN 29 ELSE 28)
    ELSE IF month \in {4, 6, 9, 11} THEN 30 ELSE 31

\* the digits of a fraction, padded or cut to nanoseconds
Nanoseconds(frac) ==
    Number(SubSeq(frac \o <<"0", "0", "0", "0", "0", "0", "0", "0", "0">>, 1, 9))

\* the zone of an RFC 3339 time: [ok, off], off in minutes
ParseZone(z) ==
    IF z = <<"Z">> THEN [ok |-> TRUE, off |-> 0]
    ELSE IF /\ Len(z) = 6 /\ z[1] \in {"+", "-"} /\ z[4] = ":"
            /\ AllDigits(SubSeq(z, 2, 3)) /\ AllDigits(SubSeq(z, 5, 6))
            /\ Number(SubSeq(z, 2, 3)) < 24 /\ Number(SubSeq(z, 5, 6)) < 60
    THEN [ok |-> TRUE,
          off |-> (IF z[1] = "-" THEN 0 - 1 ELSE 1)
                     * (Number(SubSeq(z, 2, 3)) * 60 + Number(SubSeq(z, 5, 6)))]
    ELSE [ok |-> FALSE, off |-> 0]

\* time.Parse with the strict RFC 3339 rules Time.UnmarshalJSON applies:
\* the time, or Nil when s is not one
ParseRFC3339(s) ==
    IF ~(/\ Len(s) >= 20
         /\ AllDigits(SubSeq(s, 1, 4)) /\ s[5] = "-" /\ AllDigits(SubSeq(s, 6, 7))
         /\ s[8] = "-" /\ AllDigits(SubSeq(s, 9, 10)) /\ s[11] = "T"
         /\ AllDigits(SubSeq(s, 12, 13)) /\ s[14] = ":" /\ AllDigits(SubSeq(s, 15, 16))
         /\ s[17] = ":" /\ AllDigits(SubSeq(s, 18, 19)))
    THEN Nil
    ELSE LET year == Number(SubSeq(s, 1, 4))
             month == Number(SubSeq(s, 6, 7))
             day == Number(SubSeq(s, 9, 10))
             hour == Number(SubSeq(s, 12, 13))
             min == Number(SubSeq(s, 15, 16))
             sec == Number(SubSeq(s, 18, 19))
             rest == Tail0(s, 20)
             fracEnd == IF rest[1] # "." THEN 0
                        ELSE IF \E j \in 2..Len(rest) : ~IsDigit(rest[j])
                        THEN (CHOOSE j \in 2..Len(rest) :
                                 ~IsDigit(rest[j]) /\ \A k \in 2..(j - 1) : IsDigit(rest[k])) - 1
                        ELSE Len(rest)
             frac == SubSeq(rest, 2, fracEnd)
             zone == ParseZone(Tail0(rest, fracEnd + 1))
         IN  IF \/ month \notin 1..12 \/ day \notin 1..DaysIn(month, year)
                \/ hour > 23 \/ min > 59 \/ sec > 59
                \/ (rest[1] = "." /\ frac = <<>>)
                \/ ~zone.ok
             THEN Nil
             ELSE Time(year, month, day, hour, min, sec, Nanoseconds(frac), zone.off, FALSE)

\* variant: any year is written
TimeMarshalJSON_AnyYear(t) ==
    [data |-> <<"\"">> \o FormatRFC3339Nano([t EXCEPT !.year = t.year % 10000]) \o <<"\"">>,
     err |-> NoError]

\* Time.MarshalJSON: the quoted text, or an error for a year outside 0..9999
TimeMarshalJSON(t) ==
    IF t.year < 0 \/ t.year > 9999
    THEN [data |-> <<>>, err |-> "Time.MarshalJSON: year outside of range [0,9999]"]
    ELSE [data |-> <<"\"">> \o FormatRFC3339Nano(t) \o <<"\"">>, err |-> NoError]

----------------------------------------------------------------------------
(* encoding/json as Message.Marshal and UnmarshalMessage use it.  A text   *)
(* is a sequence of characters; a character outside ASCII is written by     *)
(* its code point ("U+00E9") and a byte that is not valid UTF-8 by its      *)
(* value ("0xFF").                                                          *)

Quote == "\""
Backslash == "\\"
Replacement == "U+FFFD"
InvalidByte == "0xFF"
Whitespace == {" "}

\* the \uXXXX escapes of the characters the model writes that way
Escapes ==
    { [char |-> "<", text |-> <<"0", "0", "3", "c">>],
      [char |-> ">", text |-> <<"0", "0", "3", "e">>],
      [char |-> "&", text |-> <<"0", "0", "2", "6">>],
      [char |-> Replacement, text |-> <<"f", "f", "f", "d">>],
      [char |-> "U+00E9", text |-> <<"0", "0", "e", "9">>] }

\* what the encoder writes for one character of a string (HTML escaping on)
EncodeChar(c) ==
    IF c = Quote THEN <<Backslash, Quote>>
    ELSE IF c = Backslash THEN <<Backslash, Backslash>>
    ELSE IF c \in {"<", ">", "&"}
    THEN <<Backslash, "u">> \o (CHOOSE e \in Escapes : e.char = c).text
    ELSE IF c = InvalidByte THEN <<Backslash, "u", "f", "f", "f", "d">>
    ELSE IF c = "U+000A" THEN <<Backslash, "n">>
    ELSE IF c = "U+0009" THEN <<Backslash, "t">>
    ELSE <<c>>

RECURSIVE EncodeChars(_)
EncodeChars(s) == IF s = <<>> THEN <<>> ELSE EncodeChar(s[1]) \o EncodeChars(Tail(s))

\* a Go string as a JSON string
EncodeString(s) == <<Quote>> \o EncodeChars(s) \o <<Quote>>

\* the text s, character by character
sId == <<"i", "d">>
sTimestamp == <<"t", "i", "m", "e", "s", "t", "a", "m", "p">>
sSource == <<"s", "o", "u", "r", "c", "e">>

\* json.Marshal of a Message: the fields in declaration order under their
\* json tags; the only failure is the one of Time.MarshalJSON
JSONMarshal(m) ==
    LET t == TimeMarshalJSON(m.Timestamp)
    IN  IF t.err # NoError THEN [data |-> <<>>, err |-> t.err]
        ELSE [data |-> <<"{">> \o EncodeString(sId) \o <<":">> \o Itoa(m.ID)
                       \o <<",">> \o EncodeString(sTimestamp) \o <<":">> \o t.data
                       \o <<",">> \o EncodeString(sSource) \o <<":">> \o EncodeString(m.Source)
                       \o <<"}">>,
              err |-> NoError]

\* the character at position i of s, "EOF" past its end
At(s, i) == IF i \in 1..Len(s) THEN s[i] ELSE "EOF"

Least(S) == CHOOSE j \in S : \A k \in S : j <= k

\* the first position at or after i that holds no white space
SkipSpace(s, i) ==
    LET C == {j \in i..Len(s) : s[j] \notin Whitespace}
    IN  IF C = {} THEN Len(s) + 1 ELSE Least(C)

\* the number of backslashes directly before position j of the string that
\* opens at position i
BackslashesBefore(s, i, j) ==
    LET B == {k \in i..(j - 1) : s[k] # Backslash}
    IN  (j - 1) - (CHOOSE k \in B : \A l \in B : l <= k)

\* the position of the quote closing the string that opens at i, 0 if none
ClosingQuote(s, i) ==
    LET C == {j \in (i + 1)..Len(s) : s[j] = Quote /\ BackslashesBefore(s, i, j) % 2 = 0}
    IN  IF C = {} THEN 0 ELSE Least(C)

ControlChars == {"U+000A", "U+0009"}

\* the character a \uXXXX escape stands for
RuneOf(hex) ==
    IF \E e \in Escapes : e.text = hex THEN (CHOOSE e \in Escapes : e.text = hex).char
    ELSE "U+other"

Cons(c, r) == IF r.ok THEN [ok |-> TRUE, str |-> <<c>> \o r.str] ELSE r

\* the contents of a JSON string without its escapes: [ok, str]
RECURSIVE Unquote(_)
Unquote(c) ==
    IF c = <<>> THEN [ok |-> TRUE, str |-> <<>>]
    ELSE IF c[1] = Backslash
    THEN IF Len(c) >= 2 /\ c[2] \in {Quote, Backslash, "/"}
         THEN Cons(c[2], Unquote(Tail0(c, 3)))
         ELSE IF Len(c) >= 2 /\ c[2] = "n" THEN Cons("U+000A", Unquote(Tail0(c, 3)))
         ELSE IF Len(c) >= 2 /\ c[2] = "t" THEN Cons("U+0009", Unquote(Tail0(c, 3)))
         ELSE IF Len(c) >= 6 /\ c[2] = "u" /\ \A k \in 3..6 : c[k] \in HexChars
         THEN Cons(RuneOf(SubSeq(c, 3, 6)), Unquote(Tail0(c, 7)))
         ELSE [ok |-> FALSE, str |-> <<>>]
    ELSE IF c[1] \in ControlChars THEN [ok |-> FALSE, str |-> <<>>]
    ELSE Cons(IF c[1] = InvalidByte THEN Replacement ELSE c[1], Unquote(Tail(c)))

Failed == [ok |-> FALSE]

\* the JSON string that opens at position i
ParseString(s, i) ==
    LET j == ClosingQuote(s, i)
        raw == SubSeq(s, i + 1, j - 1)
    IN  IF j = 0 \/ ~Unquote(raw).ok THEN Failed
        ELSE [ok |-> TRUE, next |-> j + 1,
              val |-> [kind |-> "string", str |-> Unquote(raw).str, raw |-> raw]]

NumberChars == {Digits[d] : d \in 1..10} \cup {"-", "+", ".", "e", "E"}

\* an integer literal: -?(0|[1-9][0-9]*)
IsInteger(t) ==
    LET d == IF t # <<>> /\ t[1] = "-" THEN Tail(t) ELSE t
    IN  d # <<>> /\ AllDigits(d) /\ (Len(d) > 1 => d[1] # "0")

\* a JSON number: an integer literal, then an optional fraction and exponent
IsNumber(t) ==
    LET E == {j \in 1..Len(t) : t[j] \in {"e", "E"}}
        e == IF E = {} THEN 0 ELSE Least(E)
        mant == IF e = 0 THEN t ELSE SubSeq(t, 1, e - 1)
        ex == IF e = 0 THEN <<"0">> ELSE Tail0(t, e + 1)
        exd == IF ex # <<>> /\ ex[1] \in {"+", "-"} THEN Tail(ex) ELSE ex
        dot == IndexByte(mant, ".")
        ip == IF dot = 0 THEN mant ELSE SubSeq(mant, 1, dot - 1)
        fp == IF dot = 0 THEN <<"0">> ELSE Tail0(mant, dot + 1)
    IN  /\ exd # <<>> /\ AllDigits(exd)
        /\ fp # <<>> /\ AllDigits(fp)
        /\ IsInteger(ip)

\* the number that starts at position i
ParseNumber(s, i) ==
    LET C == {j \in i..Len(s) : s[j] \notin NumberChars}
        end == IF C = {} THEN Len(s) + 1 ELSE Least(C)
        t == SubSeq(s, i, end - 1)
    IN  IF IsNumber(t) THEN [ok |-> TRUE, next |-> end, val |-> [kind |-> "number", text |-> t]]
        ELSE Failed

Literals ==
    { [text |-> <<"t", "r", "u", "e">>, kind |-> "bool"],
      [text |-> <<"f", "a", "l", "s", "e">>, kind |-> "bool"],
      [text |-> <<"n", "u", "l", "l">>, kind |-> "null"] }

StartsAt(s, i, t) == i + Len(t) - 1 <= Len(s) /\ SubSeq(s, i, i + Len(t) - 1) = t

ParseLiteral(s, i) ==
    IF \E l \in Literals : StartsAt(s, i, l.text)
    THEN LET l == CHOOSE l \in Literals : StartsAt(s, i, l.text)
         IN  [ok |-> TRUE, next |-> i + Len(l.text), val |-> [kind |-> l.kind]]
    ELSE Failed

RECURSIVE ParseValue(_, _)
RECURSIVE ParseMembers(_, _, _)
RECURSIVE ParseElements(_, _)

\* the JSON value that starts at or after position from: [ok, next, val]
ParseValue(s, from) ==
    LET i == SkipSpace(s, from)
        c == At(s, i)
    IN  IF c = "{"
        THEN IF At(s, SkipSpace(s, i + 1)) = "}"
             THEN [ok |-> TRUE, next |-> SkipSpace(s, i + 1) + 1,
                   val |-> [kind |-> "object", members |-> <<>>]]
             ELSE ParseMembers(s, SkipSpace(s, i + 1), <<>>)
        ELSE IF c = "["
        THEN IF At(s, SkipSpace(s, i + 1)) = "]"
             THEN [ok |-> TRUE, next |-> SkipSpace(s, i + 1) + 1, val |-> [kind |-> "array"]]
             ELSE ParseElements(s, i + 1)
        ELSE IF c = Quote THEN ParseString(s, i)
        ELSE IF c \in NumberChars THEN ParseNumber(s, i)
        ELSE ParseLiteral(s, i)

\* the members of an object from the key at position i on, after those in acc
ParseMembers(s, i, acc) ==
    IF At(s, i) # Quote THEN Failed
    ELSE LET k == ParseString(s, i)
         IN  IF ~k.ok \/ At(s, SkipSpace(s, k.next)) # ":" THEN Failed
             ELSE LET v == ParseValue(s, SkipSpace(s, k.next) + 1)
                  IN  IF ~v.ok THEN Failed
                      ELSE LET d == SkipSpace(s, v.next)
                               all == Append(acc, [key |-> k.val.str, val |-> v.val])
                           IN  IF At(s, d) = "," THEN ParseMembers(s, SkipSpace(s, d + 1), all)
                               ELSE IF At(s, d) = "}"
                               THEN [ok |-> TRUE, next |-> d + 1,
                                     val |-> [kind |-> "object", members |-> all]]
                               ELSE Failed

\* the elements of an array from position from on
ParseElements(s, from) ==
    LET v == ParseValue(s, from)
    IN  IF ~v.ok THEN Failed
        ELSE LET d == SkipSpace(s, v.next)
             IN  IF At(s, d) = "," THEN ParseElements(s, d + 1)
                 ELSE IF At(s, d) = "]"
                 THEN [ok |-> TRUE, next |-> d + 1, val |-> [kind |-> "array"]]
                 ELSE Failed

\* variant: what follows the first value is not looked at
ParseJSON_FirstValue(data) == ParseValue(data, 1)

\* the scan json.Unmarshal makes before it stores anything: one value and
\* nothing but white space after it
ParseJSON(data) ==
    LET v == ParseValue(data, 1)
    IN  IF v.ok /\ SkipSpace(data, v.next) = Len(data) + 1 THEN v ELSE Failed

ErrSyntax == "json: syntax error"
ErrUnmarshalType == "json: cannot unmarshal into Go struct field"
ErrParseTime == "Time.UnmarshalJSON"

ZeroMessage == [ID |-> 0, Timestamp |-> ZeroTime, Source |-> <<>>]

UpperCase == <<"I", "D", "T", "M", "E", "S", "A", "P", "O", "U", "R", "C">>
LowerCase == <<"i", "d", "t", "m", "e", "s", "a", "p", "o", "u", "r", "c">>

ToLower(c) ==
    IF \E k \in 1..Len(UpperCase) : UpperCase[k] = c
    THEN LowerCase[CHOOSE k \in 1..Len(UpperCase) : UpperCase[k] = c]
    ELSE c

\* the field of Message a key names: the json tag itself, or else the tag
\* the key equals when case is ignored; <<>> when there is none
FieldOf(key) ==
    LET folded == [k \in 1..Len(key) |-> ToLower(key[k])]
    IN  IF key \in {sId, sTimestamp, sSource} THEN key
        ELSE IF folded \in {sId, sTimestamp, sSource} THEN folded
        ELSE <<>>

\* json keeps the first type error and goes on decoding
SaveError(st) == [st EXCEPT !.err = IF st.err = NoError THEN ErrUnmarshalType ELSE st.err]

\* an error returned by Time.UnmarshalJSON ends the decoding
Abort(st) == [st EXCEPT !.err = ErrParseTime, !.abort = TRUE]

\* the value of an integer literal of at most nine digits
ParseInt(t) == IF t[1] = "-" THEN 0 - Number(Tail(t)) ELSE Number(t)

\* one member of the object stored into the Message
StoreMember(st, member) ==
    LET field == FieldOf(member.key)
        v == member.val
    IN  IF field = <<>> \/ v.kind = "null" THEN st
        ELSE IF field = sId
        THEN IF v.kind = "number" /\ IsInteger(v.text) /\ Len(v.text) <= 9
             THEN [st EXCEPT !.msg.ID = ParseInt(v.text)]
             ELSE SaveError(st)
        ELSE IF field = sSource
        THEN IF v.kind = "string" THEN [st EXCEPT !.msg.Source = v.str] ELSE SaveError(st)
        ELSE IF v.kind = "string" /\ ParseRFC3339(v.raw) # Nil
             THEN [st EXCEPT !.msg.Timestamp = ParseRFC3339(v.raw)]
             ELSE Abort(st)

RECURSIVE StoreMembers(_, _)
StoreMembers(st, members) ==
    IF members = <<>> \/ st.abort THEN st
    ELSE StoreMembers(StoreMember(st, members[1]), Tail(members))

\* json.Unmarshal(data, &msg) on a zero Message: [msg, err]
JSONUnmarshal(data) ==
    LET v == ParseJSON(data)
        zero == [msg |-> ZeroMessage, err |-> NoError, abort |-> FALSE]
    IN  IF ~v.ok THEN [msg |-> ZeroMessage, err |-> ErrSyntax]
        ELSE IF v.val.kind = "null" THEN [msg |-> ZeroMessage, err |-> NoError]
        ELSE IF v.val.kind # "object" THEN [msg |-> ZeroMessage, err |-> ErrUnmarshalType]
        ELSE [msg |-> StoreMembers(zero, v.val.members).msg,
              err |-> StoreMembers(zero, v.val.members).err]

----------------------------------------------------------------------------
(* Instants and durations.  A time.Duration counts nanoseconds in 64 bits;  *)
(* it is kept here as days, seconds of the day and nanoseconds of the       *)
(* second, the last two never negative, so that nothing overflows.          *)

RECURSIVE DaysBeforeMonth(_, _)
DaysBeforeMonth(month, year) ==
    IF month = 1 THEN 0 ELSE DaysBeforeMonth(month - 1, year) + DaysIn(month - 1, year)

\* days from January 1 of year 1 to the date
DaysFromCivil(year, month, day) ==
    365 * (year - 1) + ((year - 1) \div 4) - ((year - 1) \div 100) + ((year - 1) \div 400)
        + DaysBeforeMonth(month, year) + (day - 1)

SecondsPerDay == 86400
NanosPerSecond == 1000000000

\* days and seconds brought to 0 <= sec < 86400, 0 <= nsec < 10^9
Normal(days, sec, nsec) ==
    LET s == sec + (nsec \div NanosPerSecond)
    IN  [days |-> days + (s \div SecondsPerDay), sec |-> s % SecondsPerDay,
         nsec |-> nsec % NanosPerSecond]

\* the instant of a time: its civil fields less its zone offset
Instant(t) ==
    Normal(DaysFromCivil(t.year, t.month, t.day),
           (t.hour * 60 + t.min - t.off) * 60 + t.sec, t.nsec)

Before(d, e) ==
    \/ d.days < e.days
    \/ d.days = e.days /\ d.sec < e.sec
    \/ d.days = e.days /\ d.sec = e.sec /\ d.nsec < e.nsec

\* the largest and the smallest time.Duration: 2^63 - 1 and -2^63 nanoseconds
MaxDuration == [days |-> 106751, sec |-> 85636, nsec |-> 854775807]
MinDuration == [days |-> 0 - 106752, sec |-> 763, nsec |-> 145224192]

\* Time.Sub on wall clock readings: t - u, saturated to the Duration range
Sub(t, u) ==
    LET a == Instant(t)
        b == Instant(u)
        d == Normal(a.days - b.days, a.sec - b.sec, a.nsec - b.nsec)
    IN  IF Before(MaxDuration, d) THEN MaxDuration
        ELSE IF Before(d, MinDuration) THEN MinDuration
        ELSE d

ZeroDuration == [days |-> 0, sec |-> 0, nsec |-> 0]
Millisecond == [days |-> 0, sec |-> 0, nsec |-> 1000000]
Negated(d) == Normal(0 - d.days, 0 - d.sec, 0 - d.nsec)

\* |t - u| <= 1 ms
WithinMillisecond(t, u) ==
    /\ ~Before(Millisecond, Sub(t, u))
    /\ ~Before(Sub(t, u), Negated(Millisecond))

\* variant: an age below zero is reported as zero
Age_Clamped(m, now) ==
    IF Sub(now, m.Timestamp).days < 0 THEN ZeroDuration ELSE Sub(now, m.Timestamp)

\* Message.Age with the receiver's clock at now: time.Since(m.Timestamp)
Age(m, now) == Sub(now, m.Timestamp)

----------------------------------------------------------------------------
(* Messages, bytes, host names, clock readings and datagrams the model    *)
(* draws from                                                               *)

IDs == {0 - 1, 0, 42}

\* December 31, 23:59:59 of a year, as time.Now() or time.Date() gives it
EndOf(year, nsec, off) == Time(year, 12, 31, 23, 59, 59, nsec, off, TRUE)

\* a whole second, a single nanosecond, a fraction with trailing zeros, the
\* last nanosecond of a second; UTC and zones east and west of it
Times ==
    {EndOf(y, n, o) : y \in {0 - 1, 0, 2026, 9999, 10000},
                      n \in {0, 1, 120000000, 999999999},
                      o \in {0, 120, 0 - 330}}
        \cup {ZeroTime, Time(2023, 1, 1, 12, 0, 0, 0, 0, FALSE),
              Time(2024, 2, 29, 0, 0, 0, 500000, 60, TRUE)}

SourceChars == {"h", Quote, Backslash, "<", "U+00E9", InvalidByte}
Sources == UNION {[1..k -> SourceChars] : k \in 0..MaxSourceLen}


JSONChars == {"{", "}", Quote, ":", ",", "1", "n"}
sWrong == <<"w", "r", "o", "n", "g">>
sFields == <<"f", "i", "e", "l", "d", "s">>
sInvalidJSON == <<"i", "n", "v", "a", "l", "i", "d", " ", "j", "s", "o", "n">>
sNull == <<"n", "u", "l", "l">>

\* {"key": value}
Object1(key, value) == <<"{">> \o EncodeString(key) \o <<":", " ">> \o value \o <<"}">>

\* {"key1": value1, "key2": value2}
Object2(key1, value1, key2, value2) ==
    <<"{">> \o EncodeString(key1) \o <<":", " ">> \o value1 \o <<",", " ">>
        \o EncodeString(key2) \o <<":", " ">> \o value2 \o <<"}">>

Sample == [ID |-> 42, Timestamp |-> EndOf(2026, 120000000, 120), Source |-> <<"h">>]

Prefixes(s) == {SubSeq(s, 1, k) : k \in 0..Len(s)}

WrongFields == Object1(sWrong, EncodeString(sFields))
Incomplete == <<"{">> \o EncodeString(sId) \o <<":", " ", "1", ",", " ">> \o EncodeString(sTimestamp) \o <<":">>
BadTimeAfterID == Object2(sId, <<"5">>, sTimestamp, EncodeString(<<"x">>))
BadIDThenSource == Object2(sId, EncodeString(<<"x">>), sSource, EncodeString(<<"h">>))
UpperCaseID == Object1(<<"I", "D">>, <<"7">>)
NullFields == Object2(sId, sNull, sTimestamp, sNull)
FractionalID == Object1(sId, <<"1", ".", "5">>)
NumericTime == Object1(sTimestamp, <<"1">>)
NestedWrong == Object1(sWrong, <<"[", "1", ",", "{", "}", "]">>)

OnlyID == Object1(sId, <<"-", "7">>)
OnlySource == Object1(sSource, EncodeString(<<"h">>))
OnlyTimestamp == Object1(sTimestamp, TimeMarshalJSON(Sample.Timestamp).data)
TwoValues == JSONMarshal(Sample).data \o <<"}">>

NamedInputs ==
    {sInvalidJSON, <<>>, Incomplete, WrongFields, BadTimeAfterID, BadIDThenSource,
     UpperCaseID, NullFields, FractionalID, NumericTime, NestedWrong, sNull,
     OnlyID, OnlySource, OnlyTimestamp, JSONMarshal(Sample).data \o <<" ">>, TwoValues}

Inputs ==
    UNION {[1..k -> JSONChars] : k \in 0..MaxInputLen}
        \cup NamedInputs \cup Prefixes(JSONMarshal(Sample).data)

\* what os.Hostname returns, and what time.Now() reports to the sender
Hostnames == {<<>>, <<"h", "1">>}
Unknown == <<"u", "n", "k", "n", "o", "w", "n">>
Clock == {EndOf(2026, 120000000, 120), EndOf(10000, 0, 0)}

\* make([]byte, 1024)
BufferSize == 1024

\* the first 1024 bytes of a datagram
Truncated(d) == SubSeq(d, 1, IF Len(d) < BufferSize THEN Len(d) ELSE BufferSize)

\* a datagram of 1026 bytes: an object, spaces up to byte 1024, then two
\* bytes that are not JSON
Oversize == WrongFields \o [i \in 1..(BufferSize - Len(WrongFields)) |-> " "] \o <<"}", "x">>

\* what the group delivers to a receiver: a message of a sender, text that
\* is not JSON, cut JSON, JSON of another application, an empty datagram,
\* a datagram longer than the buffer
Datagrams == {JSONMarshal(Sample).data, sInvalidJSON, Incomplete, WrongFields, <<>>, Oversize}
Remotes == {[IP |-> "10.0.0.7", Port |-> 40000], [IP |-> "10.0.0.8", Port |-> 2323]}

\* what time.Now() reports to the receiver: before and after Sample was sent
ReceiverClock == {EndOf(2026, 0, 120), EndOf(2026, 500000000, 0)}

\* the messages a sender of the model can build, and json.Marshal on them,
\* computed once
BuiltMessages ==
    [ID : 0..(MaxTicks + 1), Timestamp : Clock, Source : (Hostnames \ {<<>>}) \cup {Unknown}]

RECURSIVE Encoded(_)
Encoded(S) ==
    IF S = {} THEN <<>>
    ELSE LET m == CHOOSE m \in S : TRUE
         IN  (m :> JSONMarshal(m)) @@ Encoded(S \ {m})

EncodeTable == Encoded(BuiltMessages)

\* Message.Marshal: [data, err]
Marshal(m) == IF m \in BuiltMessages THEN EncodeTable[m] ELSE JSONMarshal(m)

\* json.Unmarshal on the datagrams of the sessions, computed once
Tabulated ==
    {EncodeTable[m].data : m \in BuiltMessages} \cup Datagrams \cup {Truncated(d) : d \in Datagrams}

RECURSIVE Decoded(_)
Decoded(S) ==
    IF S = {} THEN <<>>
    ELSE LET d == CHOOSE d \in S : TRUE
         IN  (d :> JSONUnmarshal(d)) @@ Decoded(S \ {d})

DecodeTable == Decoded(Tabulated)

\* UnmarshalMessage: &msg and the error of json.Unmarshal, whatever it is
UnmarshalMessage(data) ==
    IF data \in Tabulated THEN DecodeTable[data] ELSE JSONUnmarshal(data)

----------------------------------------------------------------------------
(* The codec on its own: Marshal then UnmarshalMessage of a Message, and    *)
(* UnmarshalMessage of arbitrary bytes                                      *)

\* the messages of the codec: the enumerated ones and those a sender builds
Messages == [ID : IDs, Timestamp : Times, Source : Sources] \cup BuiltMessages

InitCodec ==
    /\ args \in [role : {"codec"}, m : Messages] \cup [role : {"decode"}, data : Inputs]
    /\ pc = IF args.role = "codec" THEN "Marshal" ELSE "UnmarshalMessage"
    /\ Idle

\* m.Marshal()
Encode ==
    /\ pc = "Marshal"
    /\ ret' = Marshal(args.m)
    /\ pc' = "marshalled"
    /\ UNCHANGED <<args, env, addr, sockets, conn, session, err, wire, printed, log>>

\* UnmarshalMessage of the bytes Marshal returned
DecodeEncoded ==
    /\ pc = "marshalled"
    /\ ret.err = NoError
    /\ ret' = [data |-> ret.data, err |-> NoError, decoded |-> UnmarshalMessage(ret.data)]
    /\ pc' = "round trip"
    /\ UNCHANGED <<args, env, addr, sockets, conn, session, err, wire, printed, log>>

\* UnmarshalMessage of bytes from anywhere
Decode ==
    /\ pc = "UnmarshalMessage"
    /\ ret' = UnmarshalMessage(args.data)
    /\ pc' = "unmarshalled"
    /\ UNCHANGED <<args, env, addr, sockets, conn, session, err, wire, printed, log>>

NextCodec == Encode \/ DecodeEncoded \/ Decode

SpecCodec == InitCodec /\ [][NextCodec]_vars


----------------------------------------------------------------------------
(* Sessions: NewSender, Sender.Start and sendPacket; NewReceiver *)

ErrTTL == "TTL must be between 1 and 255"
ErrSourcePort == "source port must be between 0 and 65535"
ErrResolve == "failed to resolve multicast address"
ErrDial == "failed to create UDP connection"
ErrBind == "failed to bind to interface"
ErrFindInterface == "failed to find interface"
ErrInterfaceAddrs == "failed to get interface addresses"
ErrNoIPv4 == "no suitable IPv4 address found on interface"
ErrSetTTL == "failed to set multicast TTL"
ErrListen == "failed to listen on multicast address"
ErrSyscall == "syscall"

Wildcard == "0.0.0.0"

InitSession ==
    /\ args \in [role : {"send"}, groupAddr : NamedAddrs, interfaceName : InterfaceNames,
                 interval : Intervals, ttl : TTLs, sport : SPorts, dport : DPorts]
          \cup [role : {"receive"}, groupAddr : NamedAddrs, interfaceName : InterfaceNames,
                 interval : {1}, ttl : {1}, sport : {0}, dport : DPorts]
    /\ pc = IF args.role = "send" THEN "NewSender" ELSE "NewReceiver"
    /\ Idle

Fail(e) ==
    /\ pc' = "failed"
    /\ err' = e
    /\ session' = Nil

\* variant: ttl 0 passes the check
InvalidTTL_ZeroAllowed(ttl) == ttl < 0 \/ ttl > 255

InvalidTTL(ttl) == ttl < 1 \/ ttl > 255

InvalidSourcePort(sport) == sport < 0 \/ sport > 65535

\* (*net.UDPConn).Close on socket c
CloseConn(socks, c) == [socks EXCEPT ![c].state = "closed", ![c].closes = @ + 1]

\* net.DialUDP when it succeeds: one more open socket
Opened(socks, laddr, raddr) ==
    Append(socks, [state |-> "open", laddr |-> laddr, raddr |-> raddr, ttl |-> 0,
                   closes |-> 0])

\* NewSender up to the resolved address: the two range checks, the port
\* override and net.ResolveUDPAddr
NewSenderValidate ==
    /\ pc = "NewSender"
    /\ LET o == OverrideGroupPort(args.groupAddr, args.dport)
       IN  IF InvalidTTL(args.ttl)
           THEN Fail(<<ErrTTL>>) /\ UNCHANGED <<addr, env>>
           ELSE IF InvalidSourcePort(args.sport)
           THEN Fail(<<ErrSourcePort>>) /\ UNCHANGED <<addr, env>>
           ELSE IF o.err # NoError
           THEN Fail(<<o.err>>) /\ UNCHANGED <<addr, env>>
           ELSE \E lookupOK \in (IF NeedsLookup(o.addr) THEN BOOLEAN ELSE {TRUE}) :
                  LET r == ResolveUDPAddr(o.addr, lookupOK)
                  IN  /\ env' = IF lookupOK THEN env ELSE env \cup {"lookup"}
                      /\ IF r.err # NoError
                         THEN Fail(<<ErrResolve, r.err>>) /\ UNCHANGED addr
                         ELSE /\ addr' = r.addr
                              /\ pc' = "DialUDP"
                              /\ UNCHANGED <<err, session>>
    /\ UNCHANGED <<args, ret, sockets, conn, wire, printed, log>>

\* net.DialUDP("udp", &net.UDPAddr{Port: sport}, addr)
NewSenderDial ==
    /\ pc = "DialUDP"
    /\ \E ok \in BOOLEAN :
         IF ok
         THEN /\ sockets' = Opened(sockets, [IP |-> Wildcard, Port |-> args.sport], addr)
              /\ conn' = Len(sockets) + 1
              /\ pc' = IF args.interfaceName # "" THEN "DialUDPOnInterface"
                       ELSE "SetMulticastTTL"
              /\ UNCHANGED <<err, session, env>>
         ELSE /\ Fail(<<ErrDial, ErrSyscall>>)
              /\ env' = env \cup {"DialUDP"}
              /\ UNCHANGED <<sockets, conn>>
    /\ UNCHANGED <<args, ret, addr, wire, printed, log>>

\* variant: the loop does not stop at the first match
FirstUsable_Last(addrs) ==
    IF \E i \in 1..Len(addrs) : ~addrs[i].loopback /\ addrs[i].v4
    THEN CHOOSE i \in 1..Len(addrs) :
            /\ ~addrs[i].loopback /\ addrs[i].v4
            /\ \A j \in (i + 1)..Len(addrs) : ~(~addrs[j].loopback /\ addrs[j].v4)
    ELSE 0

\* the local address DialUDPOnInterface picks: the first address of the
\* interface that is not loopback and is IPv4; 0 when there is none
FirstUsable(addrs) ==
    IF \E i \in 1..Len(addrs) : ~addrs[i].loopback /\ addrs[i].v4
    THEN CHOOSE i \in 1..Len(addrs) :
            /\ ~addrs[i].loopback /\ addrs[i].v4
            /\ \A j \in 1..(i - 1) : ~(~addrs[j].loopback /\ addrs[j].v4)
    ELSE 0

InterfaceByName(name) == IF name \in DOMAIN HostInterfaces THEN HostInterfaces[name] ELSE Nil

\* variant: without a usable address the socket is bound to the wildcard
DialUDPOnInterface_Fallback(interfaceName, sport, addrsOK, dialOK) ==
    LET addrs == InterfaceByName(interfaceName)
    IN  IF addrs = Nil THEN [err |-> ErrFindInterface, laddr |-> Nil]
        ELSE IF ~addrsOK THEN [err |-> ErrInterfaceAddrs, laddr |-> Nil]
        ELSE IF ~dialOK THEN [err |-> ErrSyscall, laddr |-> Nil]
        ELSE IF FirstUsable(addrs) = 0
        THEN [err |-> NoError, laddr |-> [IP |-> Wildcard, Port |-> sport]]
        ELSE [err |-> NoError, laddr |-> [IP |-> addrs[FirstUsable(addrs)].ip, Port |-> sport]]

\* network.DialUDPOnInterface: [err, laddr]; addrsOK and dialOK are the
\* outcomes of iface.Addrs() and of net.DialUDP
DialUDPOnInterface(interfaceName, sport, addrsOK, dialOK) ==
    LET addrs == InterfaceByName(interfaceName)
    IN  IF addrs = Nil THEN [err |-> ErrFindInterface, laddr |-> Nil]
        ELSE IF ~addrsOK THEN [err |-> ErrInterfaceAddrs, laddr |-> Nil]
        ELSE IF FirstUsable(addrs) = 0 THEN [err |-> ErrNoIPv4, laddr |-> Nil]
        ELSE IF ~dialOK THEN [err |-> ErrSyscall, laddr |-> Nil]
        ELSE [err |-> NoError, laddr |-> [IP |-> addrs[FirstUsable(addrs)].ip, Port |-> sport]]

\* the interface branch of NewSender: conn.Close(), then DialUDPOnInterface
NewSenderBind ==
    /\ pc = "DialUDPOnInterface"
    /\ \E addrsOK \in BOOLEAN, dialOK \in BOOLEAN :
         LET d == DialUDPOnInterface(args.interfaceName, args.sport, addrsOK, dialOK)
             closed == CloseConn(sockets, conn)
         IN  /\ d.err \in {ErrInterfaceAddrs, ErrSyscall} \/ (addrsOK /\ dialOK)
             /\ IF d.err # NoError
                THEN /\ Fail(<<ErrBind, d.err>>)
                     /\ sockets' = closed
                     /\ conn' = 0
                     /\ env' = IF d.err = ErrInterfaceAddrs THEN env \cup {"Addrs"}
                               ELSE IF d.err = ErrSyscall THEN env \cup {"DialUDP"}
                               ELSE env
                ELSE /\ sockets' = Opened(closed, d.laddr, addr)
                     /\ conn' = Len(sockets) + 1
                     /\ pc' = "SetMulticastTTL"
                     /\ UNCHANGED <<err, session, env>>
    /\ UNCHANGED <<args, ret, addr, wire, printed, log>>

\* variant: the socket is not closed when the TTL option cannot be set
AfterSetTTLFailed_Leak(socks, c) == socks

\* NewSender when SetMulticastTTL fails: conn.Close()
AfterSetTTLFailed(socks, c) == CloseConn(socks, c)

\* network.SetMulticastTTL and the error branch of NewSender around it
NewSenderSetTTL ==
    /\ pc = "SetMulticastTTL"
    /\ \E ok \in BOOLEAN :
         IF ok
         THEN /\ sockets' = [sockets EXCEPT ![conn].ttl = args.ttl]
              /\ pc' = "Hostname"
              /\ UNCHANGED <<err, session, env>>
         ELSE /\ sockets' = AfterSetTTLFailed(sockets, conn)
              /\ Fail(<<ErrSetTTL, ErrSetTTL, ErrSyscall>>)
              /\ env' = env \cup {"setsockopt"}
    /\ UNCHANGED <<args, ret, addr, conn, wire, printed, log>>

\* variant: the name is stored as os.Hostname gave it
Hostname_AsReturned(h) == h

\* hostname, _ := os.Hostname(); if hostname == "" { hostname = "unknown" }
Hostname(h) == IF h = <<>> THEN Unknown ELSE h

\* os.Hostname, the "unknown" default, and the Sender returned
NewSenderReturn ==
    /\ pc = "Hostname"
    /\ \E h \in Hostnames :
         session' = [conn |-> conn, groupAddr |-> addr,
                     hostname |-> Hostname(h),
                     interval |-> args.interval, ttl |-> args.ttl,
                     sport |-> args.sport, packetCount |-> 0]
    /\ pc' = "returned"
    /\ UNCHANGED <<args, env, ret, addr, sockets, conn, err, wire, printed, log>>

\* variant: nothing is deferred
Deferred_Skipped(socks, c) == socks

\* defer s.conn.Close() / defer r.conn.Close(), run when Start is left
Deferred(socks, c) == CloseConn(socks, c)

\* Sender.Start up to the loop: time.NewTicker panics on a non-positive
\* interval, and the deferred conn.Close() runs while the panic unwinds
SenderStart ==
    /\ pc = "returned"
    /\ args.role = "send"
    /\ IF session.interval <= 0
       THEN /\ pc' = "panicked"
            /\ sockets' = Deferred(sockets, session.conn)
       ELSE /\ pc' = "Running"
            /\ UNCHANGED sockets
    /\ UNCHANGED <<args, env, ret, addr, conn, session, err, wire, printed, log>>

\* variant: every message carries the same id
BuildMessage_SameID(packetCount, now, hostname) ==
    [ID |-> 1, Timestamp |-> now, Source |-> hostname]

\* variant: the message takes the counter as it was before the increment
BuildMessage_StaleID(packetCount, now, hostname) ==
    [ID |-> packetCount - 1, Timestamp |-> now, Source |-> hostname]

\* the Message sendPacket builds from the incremented counter
BuildMessage(packetCount, now, hostname) ==
    [ID |-> packetCount, Timestamp |-> now, Source |-> hostname]

\* variant: Start returns when sendPacket fails
LoopAfter_Return(sendErr) == IF sendErr THEN "Stopped" ELSE "Running"

\* the body of the loop of Start: log and continue on an error
LoopAfter(sendErr) == "Running"

\* the session's socket stops being usable while the loop runs (its
\* descriptor is closed under the session, or its interface goes away): from
\* then on every conn.Write and every conn.ReadFromUDP returns an error
SocketLost ==
    /\ pc = "Running"
    /\ "socket lost" \notin env
    /\ env' = env \cup {"socket lost"}
    /\ UNCHANGED <<args, pc, ret, addr, sockets, conn, session, err, wire, printed, log>>

Unusable == "socket lost" \in env

\* variant: the counter moves by two
Incremented_Twice(packetCount) == packetCount + 2

\* s.packetCount++
Incremented(packetCount) == packetCount + 1

\* one tick of the loop of Start: sendPacket and the handling of its error
SendPacket ==
    /\ pc = "Running"
    /\ args.role = "send"
    /\ Len(log) < MaxTicks
    /\ \E now \in Clock :
         LET count == Incremented(session.packetCount)
             msg == BuildMessage(count, now, session.hostname)
             m == Marshal(msg)
         IN  \E writeOK \in (IF m.err # NoError THEN {TRUE}
                              ELSE IF Unusable THEN {FALSE} ELSE BOOLEAN) :
               /\ session' = [session EXCEPT !.packetCount = count]
               /\ IF m.err # NoError
                  THEN /\ log' = Append(log, "failed to marshal message")
                       /\ UNCHANGED <<wire, printed>>
                  ELSE IF ~writeOK
                  THEN /\ log' = Append(log, "failed to send message")
                       /\ UNCHANGED <<wire, printed>>
                  ELSE /\ wire' = Append(wire, m.data)
                       /\ printed' = Append(printed, count)
                       /\ log' = Append(log, "sent")
               /\ pc' = LoopAfter(~(m.err = NoError /\ writeOK))
    /\ UNCHANGED <<args, env, ret, addr, sockets, conn, err>>

\* the process is terminated by a signal: no deferred call runs, the
\* operating system releases the descriptors
Interrupt ==
    /\ pc = "Running"
    /\ pc' = "killed"
    /\ sockets' = [i \in 1..Len(sockets) |-> [sockets[i] EXCEPT !.state = "closed"]]
    /\ UNCHANGED <<args, env, ret, addr, conn, session, err, wire, printed, log>>

\* variant: a name that is not found gives the default
GetInterface_Default(interfaceName) ==
    IF interfaceName = "" \/ InterfaceByName(interfaceName) = Nil
    THEN [iface |-> Nil, err |-> NoError]
    ELSE [iface |-> interfaceName, err |-> NoError]

\* network.GetInterface
GetInterface(interfaceName) ==
    IF interfaceName = "" THEN [iface |-> Nil, err |-> NoError]
    ELSE IF InterfaceByName(interfaceName) = Nil THEN [iface |-> Nil, err |-> ErrFindInterface]
    ELSE [iface |-> interfaceName, err |-> NoError]

\* NewReceiver up to the interface: port override, net.ResolveUDPAddr and
\* network.GetInterface
NewReceiverResolve ==
    /\ pc = "NewReceiver"
    /\ LET o == OverrideGroupPort(args.groupAddr, args.dport)
           g == GetInterface(args.interfaceName)
       IN  IF o.err # NoError
           THEN Fail(<<o.err>>) /\ UNCHANGED <<addr, env>>
           ELSE \E lookupOK \in (IF NeedsLookup(o.addr) THEN BOOLEAN ELSE {TRUE}) :
                  LET r == ResolveUDPAddr(o.addr, lookupOK)
                  IN  /\ env' = IF lookupOK THEN env ELSE env \cup {"lookup"}
                      /\ IF r.err # NoError
                         THEN Fail(<<ErrResolve, r.err>>) /\ UNCHANGED addr
                         ELSE IF g.err # NoError
                         THEN Fail(<<g.err>>) /\ UNCHANGED addr
                         ELSE /\ addr' = r.addr
                              /\ pc' = "ListenMulticastUDP"
                              /\ UNCHANGED <<err, session>>
    /\ UNCHANGED <<args, ret, sockets, conn, wire, printed, log>>

\* net.ListenMulticastUDP and the Receiver returned: the socket is opened
\* first and closed again when the group cannot be joined
NewReceiverListen ==
    /\ pc = "ListenMulticastUDP"
    /\ \E socketOK \in BOOLEAN, joinOK \in BOOLEAN :
         LET laddr == [IP |-> Wildcard, Port |-> addr.Port]
         IN  /\ ~socketOK => joinOK
             /\ IF addr.IP = Nil \/ ~socketOK
                THEN /\ Fail(<<ErrListen, ErrSyscall>>)
                     /\ env' = IF socketOK THEN env ELSE env \cup {"socket"}
                     /\ UNCHANGED <<sockets, conn>>
                ELSE IF ~IsMulticast(addr.IP) \/ ~joinOK
                THEN /\ Fail(<<ErrListen, ErrSyscall>>)
                     /\ env' = IF joinOK THEN env ELSE env \cup {"setsockopt"}
                     /\ sockets' = CloseConn(Opened(sockets, laddr, Nil), Len(sockets) + 1)
                     /\ UNCHANGED conn
                ELSE /\ sockets' = Opened(sockets, laddr, Nil)
                     /\ conn' = Len(sockets) + 1
                     /\ session' = [conn |-> Len(sockets) + 1, groupAddr |-> addr,
                                    buffer |-> [len |-> BufferSize, cap |-> BufferSize,
                                                bytes |-> <<>>]]
                     /\ pc' = "returned"
                     /\ UNCHANGED <<err, env>>
    /\ UNCHANGED <<args, ret, addr, wire, printed, log>>

\* Receiver.Start up to the loop
ReceiverStart ==
    /\ pc = "returned"
    /\ args.role = "receive"
    /\ pc' = "Running"
    /\ UNCHANGED <<args, env, ret, addr, sockets, conn, session, err, wire, printed, log>>

\* variant: the count covers what earlier reads left in the buffer
ReadFromUDP_Longest(bytes, d) ==
    LET n == IF Len(d) < BufferSize THEN Len(d) ELSE BufferSize
        stored == SubSeq(d, 1, n) \o SubSeq(bytes, n + 1, Len(bytes))
    IN  [n |-> Len(stored), bytes |-> stored]

\* variant: the whole datagram is stored, however long
ReadFromUDP_Whole(bytes, d) == [n |-> Len(d), bytes |-> d]

\* conn.ReadFromUDP(r.buffer) of datagram d: the count n and the buffer after
\* it.  The buffer is kept as the part of it written so far; the zero bytes
\* that make up its length of 1024 are left out.
ReadFromUDP(bytes, d) ==
    LET n == IF Len(d) < BufferSize THEN Len(d) ELSE BufferSize
    IN  [n |-> n, bytes |-> SubSeq(d, 1, n) \o SubSeq(bytes, n + 1, Len(bytes))]

\* variant: everything written to the buffer so far is handed on
Received_Stale(bytes, n) == bytes

\* r.buffer[:n], what receivePacket decodes and prints
Received(bytes, n) == SubSeq(bytes, 1, n)

\* the body of the loop of Receiver.Start: log and continue on an error
ReceiveLoopAfter(readErr) == "Running"

\* what receivePacket prints about the n bytes data read from remote, u
\* being what UnmarshalMessage made of them
Report(u, n, remote, data, now) ==
    IF u.err # NoError
    THEN [kind |-> "invalid JSON", n |-> n, remote |-> remote, raw |-> data]
    ELSE [kind |-> "packet", id |-> u.msg.ID, source |-> u.msg.Source,
          remote |-> remote, delay |-> Age(u.msg, now)]

\* receivePacket after a read of datagram d that succeeded: the buffer and
\* the line printed
Handled(bytes, d, remote, now) ==
    [bytes |-> ReadFromUDP(bytes, d).bytes,
     line |-> Report(UnmarshalMessage(Received(ReadFromUDP(bytes, d).bytes, ReadFromUDP(bytes, d).n)),
                     ReadFromUDP(bytes, d).n, remote,
                     Received(ReadFromUDP(bytes, d).bytes, ReadFromUDP(bytes, d).n), now)]

\* one iteration of the loop of Receiver.Start: receivePacket and the
\* handling of its error.  log keeps what the socket delivered, printed what
\* the receiver wrote about it.
ReceivePacket ==
    /\ pc = "Running"
    /\ args.role = "receive"
    /\ Len(log) < MaxReads
    /\ \/ /\ log' = Append(log, [event |-> "read error"])
          /\ printed' = Append(printed, [kind |-> "Error receiving packet"])
          /\ pc' = ReceiveLoopAfter(TRUE)
          /\ UNCHANGED session
       \/ /\ ~Unusable
          /\ \E d \in Datagrams, remote \in Remotes, now \in ReceiverClock :
               /\ session' = [session EXCEPT
                                 !.buffer.bytes = Handled(session.buffer.bytes, d, remote, now).bytes]
               /\ log' = Append(log, [event |-> "datagram", data |-> d, remote |-> remote,
                                      now |-> now])
               /\ printed' = Append(printed, Handled(session.buffer.bytes, d, remote, now).line)
               /\ pc' = ReceiveLoopAfter(FALSE)
    /\ UNCHANGED <<args, env, ret, addr, sockets, conn, err, wire>>

Next ==
    \/ NewSenderValidate
    \/ NewSenderDial
    \/ NewSenderBind
    \/ NewSenderSetTTL
    \/ NewSenderReturn
    \/ SenderStart
    \/ SendPacket
    \/ SocketLost
    \/ Interrupt
    \/ NewReceiverResolve
    \/ NewReceiverListen
    \/ ReceiverStart
    \/ ReceivePacket

Spec == InitSession /\ [][Next]_vars

----------------------------------------------------------------------------
(* Properties of the sessions *)

Sending == args.role = "send"
AllClosed == \A i \in 1..Len(sockets) : sockets[i].state = "closed"
OpenSockets == {i \in 1..Len(sockets) : sockets[i].state = "open"}

\* C3: for every dport > 65535 OverrideGroupPort fails with the
\* destination-port error and the empty string, and NewSender and NewReceiver
\* return an error and no session without ever opening a socket.
C3_HighDPortRejected ==
    args.dport > 65535 =>
        /\ OverrideGroupPort(args.groupAddr, args.dport) = [addr |-> <<>>, err |-> ErrDestinationPort]
        /\ sockets = <<>>
        /\ session = Nil
        /\ pc \in {"NewSender", "NewReceiver", "failed"}
        /\ pc = "failed" => err \in {<<ErrTTL>>, <<ErrSourcePort>>, <<ErrDestinationPort>>}
        /\ (pc = "failed" /\ ~Sending) => err = <<ErrDestinationPort>>

C3_Witness ==
    /\ Sending /\ args.dport > 65535 /\ args.ttl = 1 /\ args.sport = 0
    /\ pc = "failed" /\ err = <<ErrDestinationPort>> /\ sockets = <<>>

\* C6: NewSender fails for every ttl outside 1..255 and every sport outside
\* 0..65535; at ttl 1 and 255, sport 0 and 65535, with a valid group address,
\* no interface and no failing system call it returns a sender, and a
\* returned sender stores ttl, sport and interval as given.
C6_SenderRangeChecks ==
    (Sending /\ pc # "NewSender") =>
        /\ (args.ttl \notin 1..255 \/ args.sport \notin 0..65535) =>
              (pc = "failed" /\ session = Nil /\ err \in {<<ErrTTL>>, <<ErrSourcePort>>})
        /\ (/\ args.ttl \in {1, 255} /\ args.sport \in {0, 65535}
            /\ args.groupAddr = Addr239_2323 /\ args.dport <= 65535
            /\ args.interfaceName = "" /\ env = {}
            /\ pc \notin {"DialUDP", "SetMulticastTTL", "Hostname"}) =>
              (session # Nil /\ err = <<>> /\ pc # "failed")
        /\ session # Nil =>
              /\ session.ttl = args.ttl
              /\ session.sport = args.sport
              /\ session.interval = args.interval

C6_Witness ==
    /\ Sending /\ pc = "returned" /\ session # Nil
    /\ args.ttl = 255 /\ args.sport = 65535 /\ session.ttl = 255 /\ session.sport = 65535

ConfigError(e) ==
    \/ e[1] \in {ErrTTL, ErrSourcePort, ErrDestinationPort, ErrParseGroupAddress, ErrResolve}
    \/ e[1] = ErrBind /\ e[2] \in {ErrFindInterface, ErrNoIPv4}

\* C7: every configuration error of NewSender (TTL, source port, destination
\* port, group address, unknown interface, interface without usable address)
\* is returned before any socket has been opened.
C7_NoSocketBeforeConfigError ==
    (Sending /\ pc = "failed" /\ ConfigError(err)) => sockets = <<>>

\* C8: NewSender leaks no socket: when it returns an error every socket it
\* opened is closed, and when it returns a sender exactly one socket is open
\* and it is the sender's.
C8_NoSocketLeak ==
    Sending =>
        /\ pc = "failed" => AllClosed
        /\ pc = "returned" => (OpenSockets = {session.conn} /\ conn = session.conn)

C8_Witness ==
    /\ Sending /\ pc = "failed" /\ err[1] = ErrSetTTL
    /\ Len(sockets) = 2 /\ AllClosed

InLoop == Sending /\ pc \in {"Running", "killed"}
SentAt == {i \in 1..Len(log) : log[i] = "sent"}
NthSent(k) == CHOOSE i \in SentAt : Cardinality({j \in SentAt : j <= i}) = k

\* the id a receiver decodes from the k-th datagram written
WrittenID(k) == UnmarshalMessage(wire[k]).msg.ID

\* C9 (as stated): the ids of the datagrams written are 1, 2, 3, ... without
\* a gap, whatever iterations failed in between.
C9_WrittenIdsGapless ==
    \A k \in 1..Len(wire) : WrittenID(k) = k

\* C9 (amended): the id starts at 1 and increases by exactly 1 per send
\* iteration, successful or failed: the datagram written in iteration i has
\* id i, so the written ids increase strictly and skip one id for each
\* failed iteration; the id is never reset.
C9_IdCountsIterations ==
    InLoop =>
        /\ session.packetCount = Len(log)
        /\ Len(wire) = Cardinality(SentAt)
        /\ \A k \in 1..Len(wire) : WrittenID(k) = NthSent(k)
        /\ \A k \in 1..(Len(wire) - 1) : NthSent(k) < NthSent(k + 1)

C9_Witness ==
    /\ pc = "Running"
    /\ log = <<"failed to send message", "sent", "failed to marshal message", "sent">>
    /\ Len(wire) = 2 /\ WrittenID(1) = 2 /\ WrittenID(2) = 4

\* C10: a failed iteration of the sender loop (encode or write failure)
\* leaves the session Running and the next tick sends again; no failed send
\* stops the loop.
C10_FailureKeepsRunning ==
    /\ pc # "Stopped"
    /\ (Sending /\ log # <<>> /\ log[Len(log)] # "sent" /\ pc # "killed") =>
          /\ pc = "Running"
          /\ Len(log) < MaxTicks => ENABLED SendPacket

C10_Witness ==
    /\ pc = "Running" /\ Len(log) = 3
    /\ log[1] = "failed to marshal message" /\ log[2] = "failed to send message"
    /\ log[3] = "sent"

\* C11: once the sender's socket is unusable, Sender.Start stops ticking and
\* returns instead of ticking on: a tick that finds the socket unusable is
\* the last one, the loop is left after it.
C11_LostSocketStopsSender ==
    [][(Sending /\ pc = "Running" /\ Unusable /\ log' = Append(log, "failed to send message"))
          => pc' # "Running"]_vars

\* C12: a read error is reported and the loop reads again, except that a
\* read that fails because the receiver's socket is no longer valid ends the
\* loop: Receiver.Start returns rather than reading again.
C12_LostSocketStopsReceiver ==
    [][(~Sending /\ pc = "Running" /\ Unusable /\ log' = Append(log, [event |-> "read error"]))
          => pc' # "Running"]_vars

Receiving == args.role = "receive" /\ pc \in {"Running", "killed", "Stopped"}

\* iteration i of the receive loop read a datagram that does not decode
DecodeFailedAt(i) ==
    log[i].event = "datagram" /\ UnmarshalMessage(Truncated(log[i].data)).err # NoError

\* C13: a datagram that fails to decode never ends the receive loop and is
\* not reported as a loop error: the receiver prints the invalid-JSON record
\* with exactly the bytes of that datagram, their count and the remote
\* address, and stays Running for the next read.
C13_DecodeFailureReported ==
    Receiving =>
        /\ Len(printed) = Len(log)
        /\ \A i \in 1..Len(log) : DecodeFailedAt(i) =>
              printed[i] = [kind |-> "invalid JSON", n |-> Len(Truncated(log[i].data)),
                            remote |-> log[i].remote, raw |-> Truncated(log[i].data)]
        /\ (log # <<>> /\ DecodeFailedAt(Len(log)) /\ pc # "killed") => pc = "Running"

C13_Witness ==
    /\ Receiving /\ pc = "Running" /\ Len(log) = 2
    /\ log[1].event = "datagram" /\ log[1].data = Incomplete
    /\ log[2].event = "datagram" /\ log[2].data = sInvalidJSON
    /\ printed[2].kind = "invalid JSON" /\ printed[2].raw = sInvalidJSON
    /\ printed[1].remote # printed[2].remote

----------------------------------------------------------------------------
(* Properties of the codec *)

RoundTrip == args.role = "codec" /\ pc = "round trip"
Encodable(t) == t.year \in 0..9999
ValidUTF8(s) == \A i \in 1..Len(s) : s[i] # InvalidByte
Replaced(s) == [i \in 1..Len(s) |-> IF s[i] = InvalidByte THEN Replacement ELSE s[i]]

Unmarshalled == args.role = "decode" /\ pc = "unmarshalled"

\* C15: on malformed input (empty, cut or non-JSON bytes) UnmarshalMessage
\* returns an error, and whenever it returns an error the message it returns
\* is nil.
C15_NilMessageWithError ==
    Unmarshalled =>
        /\ args.data \in {<<>>, Incomplete, sInvalidJSON} => ret.err # NoError
        /\ ret.err # NoError => ret.msg = Nil

Count(s, c) == Cardinality({i \in 1..Len(s) : s[i] = c})

\* bytes that cannot be one JSON value, told without parsing them: nothing
\* at all, a quote left open, a value that cannot start or end this way,
\* braces that do not pair up, a message cut short, two values
Malformed(s) ==
    \/ s = <<>>
    \/ Count(s, Backslash) = 0 /\ Count(s, Quote) % 2 = 1
    \/ s # <<>> /\ (s[1] \in {"}", ":", ","} \/ s[Len(s)] \in {"{", ":", ","})
    \/ Count(s, Quote) = 0 /\ Count(s, "{") # Count(s, "}")
    \/ s \in Prefixes(JSONMarshal(Sample).data) \ {JSONMarshal(Sample).data}
    \/ s \in {sInvalidJSON, Incomplete, TwoValues}

\* C16: a well-formed object that has none of the three fields decodes
\* without error to the zero Message; a field that is absent is never an
\* error and stays zero beside the fields that are present; bytes that are
\* not well-formed JSON always give an error.
C16_AbsentFieldsAreZero ==
    Unmarshalled =>
        /\ args.data \in {WrongFields, NestedWrong, <<"{", "}">>} =>
              ret = [msg |-> ZeroMessage, err |-> NoError]
        /\ args.data = OnlyID => ret = [msg |-> [ZeroMessage EXCEPT !.ID = 0 - 7], err |-> NoError]
        /\ args.data = OnlySource =>
              ret = [msg |-> [ZeroMessage EXCEPT !.Source = <<"h">>], err |-> NoError]
        /\ args.data = OnlyTimestamp =>
              /\ ret.err = NoError /\ ret.msg.ID = 0 /\ ret.msg.Source = <<>>
              /\ ret.msg.Timestamp = [Sample.Timestamp EXCEPT !.mono = FALSE]
        /\ Malformed(args.data) => ret.err = ErrSyntax

C16_Witness ==
    /\ Unmarshalled /\ args.data = WrongFields
    /\ ret.err = NoError /\ ret.msg.ID = 0 /\ ret.msg.Source = <<>>
    /\ ret.msg.Timestamp = ZeroTime

----------------------------------------------------------------------------
(* Properties of the interface binding *)

\* C18: a non-empty interface name the host does not have is a failure in
\* both roles: GetInterface and DialUDPOnInterface return the not-found error
\* and no result, NewSender and NewReceiver never return a session and end
\* with that error when nothing else failed before, leaving no socket open;
\* the empty name gives GetInterface's default: no interface and no error.
C18_UnknownInterfaceFails ==
    /\ args.interfaceName = "" =>
          GetInterface(args.interfaceName) = [iface |-> Nil, err |-> NoError]
    /\ args.interfaceName = "nope" =>
          /\ GetInterface(args.interfaceName) = [iface |-> Nil, err |-> ErrFindInterface]
          /\ \A addrsOK \in BOOLEAN, dialOK \in BOOLEAN :
                DialUDPOnInterface(args.interfaceName, args.sport, addrsOK, dialOK)
                    = [err |-> ErrFindInterface, laddr |-> Nil]
          /\ session = Nil
          /\ pc \in {"NewSender", "NewReceiver", "DialUDP", "DialUDPOnInterface", "failed"}
          /\ pc = "failed" => (err # <<>> /\ AllClosed)
          /\ (pc = "failed" /\ Sending /\ sockets # <<>>) => err = <<ErrBind, ErrFindInterface>>
          /\ (pc = "failed" /\ ~Sending /\ err[1] \notin {ErrDestinationPort, ErrParseGroupAddress, ErrResolve})
                => err = <<ErrFindInterface>>

C18_Witness ==
    /\ ~Sending /\ args.interfaceName = "nope" /\ args.groupAddr = Addr239_2323
    /\ pc = "failed" /\ err = <<ErrFindInterface>> /\ session = Nil /\ sockets = <<>>

\* the interfaces of the host without an address a sender can bind: only
\* loopback, only IPv6, none at all
NoUsableAddress == {"lo", "tun6", "down0"}

\* C19: on an interface that exists but has no non-loopback IPv4 address
\* (only loopback, only IPv6, or no addresses) DialUDPOnInterface fails with
\* the no-suitable-address error, which is not the not-found error, and opens
\* no socket: in NewSender only the socket opened before the call exists, and
\* it is closed.
C19_NoUsableAddressFails ==
    args.interfaceName \in NoUsableAddress =>
        /\ \A dialOK \in BOOLEAN :
              DialUDPOnInterface(args.interfaceName, args.sport, TRUE, dialOK)
                  = [err |-> ErrNoIPv4, laddr |-> Nil]
        /\ ErrNoIPv4 # ErrFindInterface
        /\ Sending =>
              /\ session = Nil
              /\ Len(sockets) <= 1
              /\ pc \in {"NewSender", "DialUDP", "DialUDPOnInterface", "failed"}
              /\ (pc = "failed" /\ sockets # <<>>) =>
                    /\ AllClosed
                    /\ err = IF "Addrs" \in env THEN <<ErrBind, ErrInterfaceAddrs>>
                              ELSE <<ErrBind, ErrNoIPv4>>

C19_Witness ==
    /\ Sending /\ args.interfaceName = "tun6" /\ pc = "failed"
    /\ err = <<ErrBind, ErrNoIPv4>> /\ Len(sockets) = 1 /\ AllClosed

\* C20: the socket of a sender is connected to the resolved endpoint, the
\* group's host with the port dport when dport is given and the group's own
\* port otherwise, and is bound to sport; its local address is the wildcard
\* when no interface is named and otherwise the interface's first
\* non-loopback IPv4 address in enumeration order.
C20_SenderSocketEndpoints ==
    (Sending /\ session # Nil) =>
        LET s == sockets[session.conn]
        IN  /\ s.raddr = addr /\ session.groupAddr = addr
            /\ args.dport > 0 => addr.Port = args.dport
            /\ (args.dport <= 0 /\ args.groupAddr \in {Addr239_2323, Addr10_2323, AddrFF02_2323})
                  => addr.Port = 2323
            /\ args.groupAddr \in {Addr239, Addr239_2323, Addr239_99999} => addr.IP.text = Addr239
            /\ args.groupAddr \in {AddrFF02, AddrFF02_2323} => addr.IP.text = AddrFF02
            /\ s.laddr.Port = args.sport
            /\ args.interfaceName = "" => (s.laddr.IP = Wildcard /\ Len(sockets) = 1)
            /\ args.interfaceName # "" =>
                  /\ args.interfaceName = "eth0" /\ s.laddr.IP = "10.0.0.5"
                  /\ Len(sockets) = 2 /\ sockets[1].state = "closed"

C20_Witness ==
    /\ Sending /\ pc = "Running" /\ args.interfaceName = "eth0"
    /\ args.groupAddr = Addr239_99999 /\ args.dport = 8080 /\ args.sport = 65535
    /\ sockets[session.conn].state = "open"
    /\ sockets[session.conn].laddr = [IP |-> "10.0.0.5", Port |-> 65535]
    /\ sockets[session.conn].raddr.Port = 8080

----------------------------------------------------------------------------
(* Properties of the receiver's socket and of the group address *)

\* C21: a receiver that NewReceiver returns listens on the port of the
\* resolved endpoint (dport when given, else the group's own port) and its
\* group address is that endpoint, a multicast address; when the resolved
\* address is not multicast the join fails, NewReceiver returns an error and
\* no receiver, and the socket opened for the join is closed.
C21_ReceiverJoinsGroup ==
    ~Sending =>
        /\ session # Nil =>
              /\ session.groupAddr = addr
              /\ addr.IP.text \in {Addr239, AddrFF02}
              /\ sockets[session.conn].laddr.Port = addr.Port
              /\ args.dport > 0 => addr.Port = args.dport
              /\ args.dport <= 0 => addr.Port = 2323
        /\ args.groupAddr = Addr10_2323 =>
              /\ session = Nil
              /\ pc \in {"NewReceiver", "ListenMulticastUDP", "failed"}
              /\ (pc = "failed" /\ sockets # <<>>) => (err = <<ErrListen, ErrSyscall>> /\ AllClosed)

C21_Witness ==
    /\ ~Sending /\ args.groupAddr = Addr10_2323 /\ args.interfaceName = ""
    /\ pc = "failed" /\ err = <<ErrListen, ErrSyscall>> /\ env = {}
    /\ session = Nil /\ Len(sockets) = 1 /\ AllClosed

\* NewSender or NewReceiver has refused the address: no session, no socket,
\* and the error is the resolver's or the parser's unless a range check of
\* another parameter came first
AddressRefused ==
    /\ session = Nil
    /\ sockets = <<>>
    /\ pc \in {"NewSender", "NewReceiver", "failed"}
    /\ pc = "failed" =>
          err[1] \in {ErrTTL, ErrSourcePort, ErrDestinationPort, ErrParseGroupAddress, ErrResolve}
    /\ (pc = "failed" /\ ~InvalidTTL(args.ttl) /\ ~InvalidSourcePort(args.sport)
          /\ args.dport <= 65535) => err[1] \in {ErrParseGroupAddress, ErrResolve}

----------------------------------------------------------------------------
(* Properties of the receive loop *)

\* the datagram of a sender: Sample as Marshal writes it
SampleData == JSONMarshal(Sample).data

\* iteration i of the receive loop decoded its datagram and printed a packet
PacketAt(i) == printed[i].kind = "packet"

\* the timestamp of the message decoded in iteration i
TimestampAt(i) == UnmarshalMessage(Truncated(log[i].data)).msg.Timestamp

\* now - t in days, seconds and nanoseconds, however large
Difference(now, t) ==
    Normal(Instant(now).days - Instant(t).days, Instant(now).sec - Instant(t).sec,
           Instant(now).nsec - Instant(t).nsec)

\* C23 (as stated): the age printed for a decoded message is the difference
\* now - timestamp itself, never replaced by another value: not negative
\* when the timestamp is not after now, negative when it is.
C23_AgeIsRawDifference ==
    Receiving =>
        \A i \in 1..Len(printed) :
            PacketAt(i) => printed[i].delay = Difference(log[i].now, TimestampAt(i))

\* C23 (amended): the age printed is now - timestamp, signed and never
\* raised to zero, as long as it fits a time.Duration; a difference beyond
\* 2^63 - 1 nanoseconds either way is printed as the largest or smallest
\* Duration, of the same sign.
C23_AgeIsSignedDifference ==
    Receiving =>
        \A i \in 1..Len(printed) :
            PacketAt(i) =>
                LET raw == Difference(log[i].now, TimestampAt(i))
                    age == printed[i].delay
                IN  /\ (~Before(MaxDuration, raw) /\ ~Before(raw, MinDuration)) => age = raw
                    /\ Before(MaxDuration, raw) => age = MaxDuration
                    /\ Before(raw, MinDuration) => age = MinDuration
                    /\ Before(Instant(log[i].now), Instant(TimestampAt(i))) <=> age.days < 0
                    /\ (log[i].data = SampleData /\ log[i].now = EndOf(2026, 0, 120))
                          => age = [days |-> 0 - 1, sec |-> 86399, nsec |-> 880000000]
                    /\ (log[i].data = SampleData
                          /\ log[i].now = EndOf(2026, 500000000, 0))
                          => age = [days |-> 0, sec |-> 7200, nsec |-> 380000000]
                    /\ log[i].data = WrongFields => age = MaxDuration

C23_Witness ==
    /\ Receiving /\ Len(printed) = 2
    /\ PacketAt(1) /\ printed[1].delay.days < 0
    /\ PacketAt(2) /\ printed[2].delay = MaxDuration

\* C24: the session's socket is released on every way out of Sender.Start
\* and Receiver.Start and Close is called on it once at most: when Start has
\* been left (by the panic of the ticker, or with the process) the session's
\* socket is closed and no socket is open, while the loop runs the socket is
\* open and not yet closed, and no socket is ever closed twice.
C24_SocketReleasedOnce ==
    /\ \A i \in 1..Len(sockets) :
          /\ sockets[i].closes <= 1
          /\ sockets[i].closes = 1 => sockets[i].state = "closed"
    /\ pc \in {"panicked", "Stopped", "killed"} =>
          /\ session # Nil
          /\ sockets[session.conn].state = "closed"
          /\ OpenSockets = {}
    /\ pc \in {"panicked", "Stopped"} => sockets[session.conn].closes = 1
    /\ pc = "Running" =>
          (sockets[session.conn].state = "open" /\ sockets[session.conn].closes = 0)

C24_Witness ==
    /\ Sending /\ pc = "panicked" /\ args.interval = 0 /\ args.interfaceName = "eth0"
    /\ Len(sockets) = 2 /\ session.conn = 2
    /\ sockets[1].closes = 1 /\ sockets[2].closes = 1 /\ AllClosed

----------------------------------------------------------------------------
(* Properties of the send loop *)

\* C25: the packet counter of a sender is 0 when NewSender returns it and
\* every iteration of the send loop, whether its send succeeds or fails,
\* raises it by exactly one before the message is built: after the n-th
\* iteration the counter is n, and a datagram written in that iteration
\* carries the id n.
C25_CounterPerIteration ==
    [][/\ (Sending /\ session = Nil /\ session' # Nil) => session'.packetCount = 0
       /\ (Sending /\ pc = "returned") => session'.packetCount = 0
       /\ (Sending /\ pc = "Running" /\ log' # log) =>
             /\ Len(log') = Len(log) + 1
             /\ session'.packetCount = session.packetCount + 1
             /\ session'.packetCount = Len(log')
             /\ wire' # wire =>
                   /\ Len(wire') = Len(wire) + 1
                   /\ UnmarshalMessage(wire'[Len(wire')]).msg.ID = Len(log')
       /\ (Sending /\ pc = "Running" /\ log' = log) => session' = session]_vars

C25_Witness ==
    /\ Sending /\ pc = "Running" /\ session.packetCount = 3
    /\ log = <<"failed to marshal message", "failed to send message", "sent">>
    /\ Len(wire) = 1 /\ WrittenID(1) = 3

----------------------------------------------------------------------------
(* Properties of the receive buffer *)

\* iteration i of the receive loop read a datagram longer than the buffer
TooLongAt(i) == log[i].event = "datagram" /\ Len(log[i].data) > BufferSize

\* C26: a receiver has one buffer of length and capacity 1024 from NewReceiver
\* on, never grown; a datagram longer than 1024 bytes is handled as its first
\* 1024 bytes: these are decoded and reported like any datagram, no error is
\* reported for the cut, and the loop goes on to the next read.
C26_FixedBuffer ==
    (~Sending /\ session # Nil) =>
        /\ session.buffer.len = BufferSize /\ session.buffer.cap = BufferSize
        /\ Len(session.buffer.bytes) <= BufferSize
        /\ \A i \in 1..Len(log) :
              TooLongAt(i) =>
                  /\ Len(printed) >= i
                  /\ printed[i].kind \in {"packet", "invalid JSON"}
                  /\ printed[i].kind = "invalid JSON" =>
                        /\ printed[i].n = BufferSize
                        /\ printed[i].raw = SubSeq(log[i].data, 1, BufferSize)
                  /\ log[i].data = Oversize =>
                        printed[i] = [kind |-> "packet", id |-> 0, source |-> <<>>,
                                      remote |-> log[i].remote, delay |-> MaxDuration]
        /\ (log # <<>> /\ TooLongAt(Len(log)) /\ pc # "killed") => pc = "Running"

C26_Witness ==
    /\ ~Sending /\ pc = "Running" /\ Len(log) = 2
    /\ TooLongAt(1) /\ printed[1].kind = "packet" /\ printed[1].id = 0
    /\ log[2].event = "datagram" /\ log[2].data = sInvalidJSON
    /\ Len(session.buffer.bytes) = BufferSize

----------------------------------------------------------------------------
(* Properties of the source name and of the ids written *)

\* the source a receiver decodes from the k-th datagram written
WrittenSource(k) == UnmarshalMessage(wire[k]).msg.Source

\* C27: the hostname of a sender is never empty: when os.Hostname fails or
\* gives the empty string the sender holds "unknown", and every datagram
\* written carries the sender's non-empty hostname as its source.
C27_SourceNeverEmpty ==
    (Sending /\ session # Nil) =>
        /\ session.hostname # <<>>
        /\ session.hostname \in (Hostnames \ {<<>>}) \cup {Unknown}
        /\ \A k \in 1..Len(wire) :
              WrittenSource(k) # <<>> /\ WrittenSource(k) = session.hostname

C27_Witness ==
    /\ Sending /\ pc = "Running" /\ session.hostname = Unknown
    /\ Len(wire) = 2 /\ WrittenSource(2) = Unknown

\* C28: in a sender session the ids of the datagrams written increase
\* strictly in write order, whatever sends failed in between, so no id is
\* written twice; a send record is printed exactly for the writes that
\* succeeded, and the k-th record carries the id of the k-th datagram written.
C28_WrittenIdsIncrease ==
    Sending =>
        /\ Len(printed) = Len(wire)
        /\ Len(wire) = Cardinality(SentAt)
        /\ \A k \in 1..Len(wire) : printed[k] = WrittenID(k)
        /\ \A j, k \in 1..Len(wire) : j < k => WrittenID(j) < WrittenID(k)

C28_Witness ==
    /\ Sending /\ pc = "Running"
    /\ log = <<"sent", "failed to send message", "failed to marshal message", "sent">>
    /\ printed = <<1, 4>> /\ WrittenID(1) = 1 /\ WrittenID(2) = 4

----------------------------------------------------------------------------
(* Properties of the reuse of the receive buffer *)

\* what a receiver with a fresh buffer prints about the datagram of iteration i
FreshReport(i) ==
    Report(UnmarshalMessage(Truncated(log[i].data)), Len(Truncated(log[i].data)),
           log[i].remote, Truncated(log[i].data), log[i].now)

\* iteration i read a datagram shorter than one read before it
ShorterThanEarlier(i) ==
    /\ log[i].event = "datagram"
    /\ \E j \in 1..(i - 1) : log[j].event = "datagram" /\ Len(log[j].data) > Len(log[i].data)

\* C29: the record printed for a datagram (decoded message, or byte count and
\* raw bytes) is the one a fresh buffer would give: it depends only on the
\* first min(len, 1024) bytes of that datagram, also when an earlier and
\* longer datagram left bytes behind them in the buffer.
C29_NoLeakBetweenDatagrams ==
    Receiving =>
        /\ \A i \in 1..Len(log) :
              log[i].event = "datagram" => (Len(printed) >= i /\ printed[i] = FreshReport(i))
        /\ \A i \in 1..Len(log) :
              (log[i].event = "datagram" /\ \A j \in (i + 1)..Len(log) : log[j].event # "datagram")
                  => SubSeq(session.buffer.bytes, 1, Len(Truncated(log[i].data)))
                         = Truncated(log[i].data)

C29_Witness ==
    /\ Receiving /\ pc = "Running" /\ Len(log) = 2
    /\ log[1].event = "datagram" /\ log[1].data = Oversize
    /\ ShorterThanEarlier(2) /\ log[2].data = <<>>
    /\ Len(session.buffer.bytes) = BufferSize
    /\ printed[1].kind = "packet"
    /\ printed[2].kind = "invalid JSON" /\ printed[2].n = 0 /\ printed[2].raw = <<>>

----------------------------------------------------------------------------
(* Properties of starting a sender *)

\* C30: every sender that NewSender returned can be started: whatever the
\* interval it was given (zero, negative, large), Sender.Start takes it from
\* returned to Running with its socket open, where the first tick sends;
\* Start never aborts before the loop.
C30_ReturnedSenderStarts ==
    [][(Sending /\ pc = "returned" /\ pc' # "returned")
          => (pc' = "Running" /\ sockets' = sockets)]_vars

====
